---- MODULE Spec2Model ----
(***************************************************************************)
(* Model of the nutrition-estimate pipeline of calorie-bot:                *)
(*   ai_analyzer.py   CalorieAnalyzer.analyze_food_image,                  *)
(*                    _parse_ai_response, _create_fallback_result,         *)
(*                    enhance_analysis_with_database,                      *)
(*                    _extract_weight_from_item                            *)
(*   food_database.py FatSecretAPI, RussianFoodDatabase,                   *)
(*                    FoodDatabaseManager                                  *)
(*                                                                         *)
(* Conventions.                                                            *)
(*  - Python numbers are fixed-point integers counting tenths: T(n) is the *)
(*    whole number n, 1005 is 100.5.  Weights and calories are multiples   *)
(*    of one half, so the float arithmetic of the source is exact on them; *)
(*    the nutrients FatSecret gives per 100 g (0.4, 13.6) are not, and the *)
(*    rounding of their products follows the binary floats (FloatRound).   *)
(*  - A JSON value of a numeric field is a record [t, v]: t = "num" with   *)
(*    the value v, or t = "nan" (float nan), "str" (a non-numeric string), *)
(*    "null" (None), "missing" (key absent), "absent" (key never set).     *)
(*  - Cyrillic strings of the source are written transliterated between    *)
(*    angle brackets: "<borshch>" is the key of RUSSIAN_FOODS for borscht, *)
(*    "<g>" the Cyrillic unit letter that _extract_weight_from_item        *)
(*    removes, while "g" is the Latin letter.                              *)
(*  - A Python call that can raise returns a record with st = "ok" or      *)
(*    st = "raise".                                                        *)
(***************************************************************************)
EXTENDS Integers, Sequences, FiniteSets, TLC

VARIABLES
    pc,                       \* position of the running call
    witem,                    \* argument of _extract_weight_from_item
    wres,                     \* what _extract_weight_from_item returned / raised
    api_key,                  \* config.OPENAI_API_KEY is set
    image,                    \* image_bytes: "bytes" or "empty"
    fs_enabled,               \* FatSecretAPI.enabled (both keys configured)
    content,                  \* the reply of the vision model
    pres,                     \* what _parse_ai_response returned / raised
    ai_result,                \* argument of enhance_analysis_with_database
    idx,                      \* position of its loop in ai_result.food_items
    enhanced_items,           \* its local enhanced_items
    total_calories_enhanced,  \* its local total_calories_enhanced
    database_matches,         \* its local database_matches
    enh_error,                \* its except branch was taken
    enh,                      \* what it returned
    result,                   \* what analyze_food_image returned
    tname,                    \* argument of translate_food_name
    tres,                     \* what translate_food_name returned
    requests,                 \* the requests sent to FatSecret for the last item
    model_calls,              \* how many times chat.completions.create was called
    tests,                    \* how many of these calls the command /testai made
    previous,                 \* the analyses made before the current one
    elapsed,                  \* the time since the analysis before
    candidates,               \* the candidates of the lookup of the last item
    food_entries,             \* the rows of table food_entries
    daily_stats,              \* the rows of table daily_stats
    clock,                    \* the time of the last call of datetime.now
    pending,                  \* the calls of _update_daily_stats still to make
    user_data,                \* context.user_data of the chat
    user,                     \* the row of the user in table users
    last,                     \* the settings button the last update pressed
    suspended,                \* the handlers suspended at an await
    updates,                  \* how many updates the bot has taken in the session
    webhook,                  \* the bot runs webhook_server.py, not polling
    sqlite                    \* DATABASE_URL names a SQLite file

vars == <<pc, witem, wres, api_key, image, fs_enabled, content, pres, ai_result,
          idx, enhanced_items, total_calories_enhanced, database_matches,
          enh_error, enh, result, tname, tres, requests, model_calls, tests,
          previous, elapsed, candidates, food_entries, daily_stats, clock,
          pending, user_data, user, last, suspended, updates, webhook, sqlite>>

\* the tables of food entries and daily statistics, the clock, and the
\* updates of the statistics the running call has still to make
store_vars == <<food_entries, daily_stats, clock, pending>>

\* the state of the chat with one user, and how the bot is deployed
chat_vars == <<user_data, user, last, suspended, updates, webhook, sqlite>>

(***************************************************************************)
(* Numbers                                                                 *)
(***************************************************************************)
T(n) == 10 * n

Num(v) == [t |-> "num", v |-> v]
NaN == [t |-> "nan", v |-> 0]
NonNum(kind) == [t |-> kind, v |-> 0]
IsNum(x) == x.t = "num"

\* round-half-to-even of the rational num/den (den > 0), as Python's round()
RoundHalfEven(num, den) ==
    LET q == num \div den
        r == num % den
    IN  IF 2 * r < den THEN q
        ELSE IF 2 * r > den THEN q + 1
        ELSE IF q % 2 = 0 THEN q ELSE q + 1

(***************************************************************************)
(* round((p * w) / 100, ndigits) on binary floats.  p and w are the floats *)
(* nearest to the decimals p10/10 and w10/10 (p10, w10 > 0), and the exact *)
(* quotient p10 * w10 / den is wanted in units of the last digit kept (den *)
(* is 1000 for one decimal, 10000 for none).  Off a tie the errors of the  *)
(* floats are too small to matter.  At a tie round() looks at the float    *)
(* the expression gives, which lies above or below the decimal tie.  A     *)
(* float has 52 bits after the leading one.                                *)
(***************************************************************************)
RECURSIVE FloorLog2(_, _)
\* floor(log2(num / den)), num > 0, den > 0
FloorLog2(num, den) ==
    IF num >= 2 * den THEN FloorLog2(num, 2 * den) + 1
    ELSE IF num < den THEN FloorLog2(2 * num, den) - 1
    ELSE 0

RECURSIVE Pow2Mod(_, _)
\* 2^k modulo m
Pow2Mod(k, m) == IF k = 0 THEN 1 % m ELSE (2 * Pow2Mod(k - 1, m)) % m

\* float(x10 / 10) = x10 / 10 + DoubleError(x10) / (10 * 2^k), where
\* 2^(-k) is the last place of the float: k = 52 - floor(log2(x10 / 10))
DoubleError(x10) ==
    LET rho == ((x10 % 10) * Pow2Mod(52 - FloorLog2(x10, 10), 10)) % 10
    IN  IF rho < 5 THEN -rho ELSE 10 - rho

\* p * w as a float, less the exact product, in last places of the product:
\* the errors of p and w weighted by the other factor, rounded to a whole
\* number.  EP, Ep, Ew are the exponents of the product, of p and of w.
ProductError(p10, w10, EP, Ep, Ew, S) ==
    (2 * (p10 * DoubleError(w10) * 2^(S - (EP - Ew))
            + w10 * DoubleError(p10) * 2^(S - (EP - Ep)))
       + 100 * 2^S) \div (2 * 100 * 2^S)

\* the tie P / 100 of quotient q: R is the part of the tie beyond a float in
\* hundredths of a last place, G the same for the float product m last
\* places off P.  The quotient the division gives is the float above the
\* tie when G > 50, the float below it otherwise, the tie itself when the
\* tie is a float and m = 0.
RoundAtTie(q, P, m, EP, Et) ==
    LET R == ((P % 100) * Pow2Mod(52 - Et, 100)) % 100
        G == R + m * 2^(EP - Et)
    IN  IF G > 50 THEN q + 1
        ELSE IF G < 50 /\ (R # 0 \/ m # 0) THEN q
        ELSE IF q % 2 = 0 THEN q ELSE q + 1

MaxExp(a, b) == IF a > b THEN (IF a > 0 THEN a ELSE 0) ELSE (IF b > 0 THEN b ELSE 0)

FloatRoundAtTie(p10, w10, den, P, EP, Ep, Ew) ==
    RoundAtTie((p10 * w10) \div den, P,
               ProductError(p10, w10, EP, Ep, Ew, MaxExp(EP - Ew, EP - Ep)),
               EP, FloorLog2(P, 100))

\* round((p * w) / 100, ndigits) for p10, w10 > 0
FloatRoundPos(p10, w10, den) ==
    IF 2 * ((p10 * w10) % den) # den THEN RoundHalfEven(p10 * w10, den)
    ELSE FloatRoundAtTie(p10, w10, den, (p10 * w10) \div 100,
                         FloorLog2((p10 * w10) \div 100, 1),
                         FloorLog2(p10, 10), FloorLog2(w10, 10))

\* round() is odd: round(-x) = -round(x)
FloatRound(p10, w10, den) ==
    IF p10 = 0 \/ w10 = 0 THEN 0
    ELSE IF (p10 < 0) # (w10 < 0)
    THEN -FloatRoundPos(IF p10 < 0 THEN -p10 ELSE p10,
                        IF w10 < 0 THEN -w10 ELSE w10, den)
    ELSE FloatRoundPos(IF p10 < 0 THEN -p10 ELSE p10,
                       IF w10 < 0 THEN -w10 ELSE w10, den)

\* int(): truncation toward zero of the rational num/den (den > 0)
TruncDiv(num, den) ==
    IF num >= 0 THEN num \div den ELSE -((-num) \div den)

\* round(x) of a float x given in tenths; the result is a whole number
PyRound(v) == T(RoundHalfEven(v, 10))

\* int(x) of a float x given in tenths
PyInt(v) == T(TruncDiv(v, 10))

Abs(v) == IF v < 0 THEN -v ELSE v

(***************************************************************************)
(* Items.  estimated_weight is a record [k, v]:                            *)
(*   "s_ru"    the string "<v><g>"   (number followed by the Cyrillic g)   *)
(*   "s_lat"   the string "<v>g"     (number followed by the Latin g)      *)
(*   "s_plain" the string "<v>"                                            *)
(*   "s_nan"   the string "nan"                                            *)
(*   "s_text"  a string with no number to parse, such as "4 pieces"        *)
(*   "number"  a JSON number,  "null"  JSON null,  "missing"  key absent   *)
(***************************************************************************)
WStr(k, v) == [k |-> k, v |-> v]
WMissing == WStr("missing", 0)

Item(n, w, c, p, cb, f) ==
    [name |-> n, estimated_weight |-> w, calories |-> c,
     proteins |-> p, carbs |-> cb, fats |-> f, certainty |-> "<missing>",
     source |-> "<absent>", match_score |-> NonNum("absent"),
     calories_per_100g |-> NonNum("absent")]

(***************************************************************************)
(* CalorieAnalyzer._extract_weight_from_item                               *)
(***************************************************************************)
Ok(x) == [st |-> "ok", val |-> x]
Raise == [st |-> "raise", val |-> NonNum("null")]

\* item.get('estimated_weight', '0<g>')
get_estimated_weight(item) ==
    IF item.estimated_weight.k = "missing" THEN WStr("s_ru", 0)
    ELSE item.estimated_weight

\* float(weight_str.replace('<g>', '').strip())
\*   AttributeError for a value that is no string, ValueError for a string
\*   that float() rejects; float("nan") is accepted and is nan.
float_of_weight_str(ws) ==
    CASE ws.k \in {"s_ru", "s_plain"} -> Ok(Num(ws.v))
      [] ws.k = "s_nan" -> Ok(NaN)
      [] OTHER -> Raise

\* max(a, b) of Python: a, unless b > a (a comparison with nan is False)
PyMax(a, b) ==
    IF IsNum(a) /\ IsNum(b) /\ b.v > a.v THEN b ELSE a

\* item.get('calories', 100)
get_calories(item) ==
    IF item.calories.t = "missing" THEN Num(T(100)) ELSE item.calories

\* the except branch: max(50, round(calories / 2.5)); calories / 2.5 raises
\* TypeError for a non-number, round(nan) raises ValueError
weight_from_calories(item) ==
    LET calories == get_calories(item)
    IN  IF ~IsNum(calories) THEN Raise
        ELSE Ok(PyMax(Num(T(50)), Num(T(RoundHalfEven(calories.v, 25)))))

extract_weight_from_item(item) ==
    LET parsed == float_of_weight_str(get_estimated_weight(item))
    IN  IF parsed.st = "ok" THEN Ok(PyMax(parsed.val, Num(T(50))))
        ELSE weight_from_calories(item)

(***************************************************************************)
(* Strings.  The names of the model and what str.lower().strip() and       *)
(* str.title() make of them.                                               *)
(***************************************************************************)
NonStrName == "<nonstr>"        \* a name that is no string (a JSON number)

LowerStrip(s) ==
    CASE s = "Borscht " -> "borscht"
      [] s = "Apple" -> "apple"
      [] s = "<Borshch>" -> "<borshch>"
      [] s = "<Bliny>" -> "<bliny>"
      [] s = "<Kuritsa>" -> "<kuritsa>"
      [] s = "<Smetana>" -> "<smetana>"
      [] OTHER -> s

Title(s) ==
    CASE s = "<borshch>" -> "<Borshch>"
      [] s = "<bliny>" -> "<Bliny>"
      [] s = "<kuritsa>" -> "<Kuritsa>"
      [] s = "<smetana>" -> "<Smetana>"
      [] OTHER -> s

(***************************************************************************)
(* RussianFoodDatabase: the rows of RUSSIAN_FOODS and of                   *)
(* english_to_russian that the names of the model reach.                   *)
(***************************************************************************)
RussianKeySeq == <<"<borshch>", "<bliny>", "<kuritsa>", "<smetana>">>
RussianKeys == {RussianKeySeq[i] : i \in DOMAIN RussianKeySeq}

RUSSIAN_FOODS ==
    [k \in RussianKeys |->
        CASE k = "<borshch>" -> [calories_per_100g |-> T(93), typical_serving |-> T(300)]
          [] k = "<bliny>" -> [calories_per_100g |-> T(267), typical_serving |-> T(250)]
          [] k = "<kuritsa>" -> [calories_per_100g |-> T(165), typical_serving |-> T(200)]
          [] k = "<smetana>" -> [calories_per_100g |-> T(202), typical_serving |-> T(50)]]

english_to_russian == [k \in {"borscht"} |-> "<borshch>"]

\* fuzz.partial_ratio(query, key) of fuzzywuzzy, for the names of the model
partial_ratio(query, key) ==
    CASE query = "<borshch ukrainskiy>" /\ key = "<borshch>" -> 100
      [] query = "<borshch ukrainskiy>" /\ key = "<bliny>" -> 40
      [] query = "<borshch ukrainskiy>" /\ key = "<kuritsa>" -> 50
      [] query = "<borshch ukrainskiy>" /\ key = "<smetana>" -> 18
      [] query = "<borshch so smetanoy>" /\ key = "<borshch>" -> 100
      [] query = "<borshch so smetanoy>" /\ key = "<bliny>" -> 20
      [] query = "<borshch so smetanoy>" /\ key = "<kuritsa>" -> 17
      [] query = "<borshch so smetanoy>" /\ key = "<smetana>" -> 86
      [] query \in {"<Neizvestnyy produkt>", "<Blyudo (ne udalos raspoznat)>"}
            /\ key = "<smetana>" -> 43
      [] query \in {"<Neizvestnyy produkt>", "<Blyudo (ne udalos raspoznat)>"}
            /\ key = "<bliny>" -> 40
      [] query \in {"<Neizvestnyy produkt>", "<Blyudo (ne udalos raspoznat)>"}
            /\ key = "<borshch>" -> 25
      [] query = "<Neizvestnyy produkt>" /\ key = "<kuritsa>" -> 25
      [] query = "<Blyudo (ne udalos raspoznat)>" /\ key = "<kuritsa>" -> 33
      [] query \in {"<Eda> (steak)", "<Eda> (steak, meat)", "<Eda> (steak, food)",
                    "<Eda> (fish, rice)", "<Eda> (food)", "<Eda> (meal)",
                    "<Eda> (food, meal)"}
            /\ key = "<kuritsa>" -> 17
      [] query \in {"<Eda> (steak)", "<Eda> (steak, meat)", "<Eda> (steak, food)",
                    "<Eda> (fish, rice)", "<Eda> (food)", "<Eda> (meal)",
                    "<Eda> (food, meal)"}
            /\ key = "<smetana>" -> 29
      [] OTHER -> 0

\* a candidate of a search: one shape for both sources
Candidate(id, name, source, cal, serving, score) ==
    [id |-> id, name |-> name, source |-> source, calories_per_100g |-> cal,
     typical_serving_g |-> serving, match_score |-> score]

\* sorted(seq, key, reverse=True): stable, the greatest key first
\* keys[i] is the key of seq[i]
SortDesc(seq, keys) ==
    LET n == Len(seq)
        pos(i) == Cardinality({j \in 1..n : keys[j] > keys[i]})
                  + Cardinality({j \in 1..(i - 1) : keys[j] = keys[i]}) + 1
    IN  [p \in 1..n |-> seq[CHOOSE i \in 1..n : pos(i) = p]]

Take(seq, n) == SubSeq(seq, 1, IF Len(seq) < n THEN Len(seq) ELSE n)

FUZZY_THRESHOLD == 70
RUSSIAN_MAX_RESULTS == 5

\* process.extract(query, RUSSIAN_FOODS.keys(), limit=max_results,
\*                 scorer=fuzz.partial_ratio): the best max_results keys
process_extract(query) ==
    LET scored == [i \in DOMAIN RussianKeySeq |->
                      [key |-> RussianKeySeq[i],
                       score |-> partial_ratio(query, RussianKeySeq[i])]]
    IN  Take(SortDesc(scored, [i \in DOMAIN scored |-> scored[i].score]),
             RUSSIAN_MAX_RESULTS)

(***************************************************************************)
(* FatSecretAPI.  The answer of the remote service is an input:            *)
(*   search_food:      "error" (request or decoding raised), "nofoods",    *)
(*                     "foods" (the foods the service lists for the query) *)
(*   get_food_details: "error", "no100g" (no serving of 100 g), "ok"       *)
(***************************************************************************)
SearchAnswers == {"error", "nofoods", "foods"}
DetailAnswers == {"error", "no100g", "ok"}

\* what the service lists for a search expression
ApiFoods(query) ==
    CASE LowerStrip(query) = "apple" ->
             <<[food_id |-> "35718", food_name |-> "Apple"]>>
      [] LowerStrip(query) \in {"<borshch>", "<borshch ukrainskiy>",
                                "<borshch so smetanoy>"} ->
             <<[food_id |-> "4881", food_name |-> "Borscht"],
               [food_id |-> "4882", food_name |-> "Beet Soup"]>>
      [] OTHER -> <<>>

\* the serving of 100 g of a food of the service: calories, protein,
\* carbohydrate, fat
ApiServing(food_id) ==
    [calories |-> T(52), protein |-> 4, carbs |-> 136, fat |-> 4]

FATSECRET_MAX_RESULTS == 5

\* FatSecretAPI.search_food(query)
fatsecret_search_food(enabled, query, answer) ==
    IF ~enabled THEN <<>>
    ELSE IF answer = "foods"
         THEN LET foods == Take(ApiFoods(query), FATSECRET_MAX_RESULTS)
              IN  [i \in DOMAIN foods |->
                      Candidate(foods[i].food_id, foods[i].food_name, "<absent>",
                                NonNum("absent"), NonNum("absent"), NonNum("absent"))]
         ELSE <<>>

NoDetails == [found |-> FALSE, name |-> "<none>", has100g |-> FALSE,
              nutrition |-> [calories |-> 0, protein |-> 0, carbs |-> 0, fat |-> 0]]

\* fatsecret_get_food_details answering a failed request with the details of
\* the food
fatsecret_get_food_details_of_failure(enabled, food_id, answer) ==
    IF ~enabled THEN NoDetails
    ELSE [found |-> TRUE, name |-> "Apple", has100g |-> (answer # "no100g"),
          nutrition |-> IF answer # "no100g" THEN ApiServing(food_id)
                        ELSE NoDetails.nutrition]

\* FatSecretAPI.get_food_details(food_id): None, or the details
fatsecret_get_food_details(enabled, food_id, answer) ==
    IF ~enabled \/ answer = "error" THEN NoDetails
    ELSE [found |-> TRUE, name |-> "Apple", has100g |-> (answer = "ok"),
          nutrition |-> IF answer = "ok" THEN ApiServing(food_id)
                        ELSE NoDetails.nutrition]

(***************************************************************************)
(* RussianFoodDatabase.search_food(query); fs is what the call of          *)
(* FatSecretAPI().search_food(original_query) in it answers.               *)
(***************************************************************************)
\* the fuzzy search: the keys process.extract returns with a score of at
\* least 70, as candidates of source 'russian'
fuzzy_candidates(matches) ==
    [i \in DOMAIN matches |->
        Candidate(matches[i].key, Title(matches[i].key), "russian",
                  Num(RUSSIAN_FOODS[matches[i].key].calories_per_100g),
                  Num(RUSSIAN_FOODS[matches[i].key].typical_serving),
                  Num(T(matches[i].score)))]

fuzzy_search(query) ==
    fuzzy_candidates(SelectSeq(process_extract(query),
                               LAMBDA m : m.score >= FUZZY_THRESHOLD))

\* if not results: the results of FatSecret when it has some
results_or_fatsecret(results, original_query, enabled, answer) ==
    IF results = <<>>
       /\ fatsecret_search_food(enabled, original_query, answer) # <<>>
    THEN fatsecret_search_food(enabled, original_query, answer)
    ELSE results

\* the search once the query is translated
russian_search_query(query, original_query, enabled, answer) ==
    IF query \in DOMAIN RUSSIAN_FOODS
    THEN <<Candidate(query, Title(query), "russian_database",
                     Num(RUSSIAN_FOODS[query].calories_per_100g),
                     Num(RUSSIAN_FOODS[query].typical_serving),
                     Num(T(100)))>>
    ELSE results_or_fatsecret(fuzzy_search(query), original_query, enabled, answer)

translate_query(original_query) ==
    IF original_query \in DOMAIN english_to_russian
    THEN english_to_russian[original_query]
    ELSE original_query

russian_search_food(name, enabled, answer) ==
    IF name = NonStrName THEN Raise       \* query.lower(): AttributeError
    ELSE Ok(russian_search_query(translate_query(LowerStrip(name)),
                                 LowerStrip(name), enabled, answer))

(***************************************************************************)
(* FoodDatabaseManager                                                     *)
(***************************************************************************)
typical_weights ==
    [k \in {"<borshch>", "<bliny>", "<smetana>"} |->
        CASE k = "<borshch>" -> T(300)
          [] k = "<bliny>" -> T(250)
          [] k = "<smetana>" -> T(50)]

\* CORRECTION_FACTORS['calorie_corrections'].get(food_key, 1.0), in tenths
calorie_correction_factor(food_key) == 10

\* sort_key ranking the results of FatSecret above all others
sort_key_external_first(item) ==
    (IF item.source = "fatsecret" THEN T(2000) ELSE 0)
    + (IF IsNum(item.match_score) /\ item.match_score.v # 0
       THEN item.match_score.v ELSE 0)

sort_key(item) ==
    (IF item.source = "russian_database" THEN T(1000) ELSE 0)
    + (IF IsNum(item.match_score) /\ item.match_score.v # 0
       THEN item.match_score.v ELSE 0)

MANAGER_MAX_RESULTS == 10

\* for result in fatsecret_results: result['source'] = 'fatsecret'
tag_fatsecret(found) ==
    [i \in DOMAIN found |-> [found[i] EXCEPT !.source = "fatsecret"]]

\* all_results.sort(key=sort_key, reverse=True); all_results[:10]
sorted_results(all_results) ==
    Take(SortDesc(all_results,
                  [i \in DOMAIN all_results |-> sort_key(all_results[i])]),
         MANAGER_MAX_RESULTS)

\* all_results: the results of the curated table, then those of FatSecret
merge_results(russian_results, fatsecret_results) ==
    sorted_results(russian_results \o fatsecret_results)

manager_search_after(russian, name, enabled, answer2) ==
    IF russian.st = "raise" THEN Raise
    ELSE Ok(merge_results(russian.val,
                          tag_fatsecret(fatsecret_search_food(enabled, name, answer2))))

\* FoodDatabaseManager.search_food(query); answer1 and answer2 are the
\* answers of the service to the two requests the call can make
manager_search_food(name, enabled, answer1, answer2) ==
    manager_search_after(russian_search_food(name, enabled, answer1),
                         name, enabled, answer2)

\* apply_weight_correction that never replaces the weight by the typical one
apply_weight_correction_kept(food_key, estimated_weight) ==
    IF IsNum(estimated_weight) THEN Ok(Num(PyInt(estimated_weight.v)))
    ELSE Raise

\* FoodDatabaseManager._apply_weight_correction; int(nan) raises ValueError
apply_weight_correction(food_key, estimated_weight) ==
    IF food_key \in DOMAIN typical_weights
       /\ IsNum(estimated_weight)
       /\ 2 * Abs(estimated_weight.v - typical_weights[food_key])
             > typical_weights[food_key]
    THEN Ok(Num(typical_weights[food_key]))
    ELSE IF IsNum(estimated_weight) THEN Ok(Num(PyInt(estimated_weight.v)))
    ELSE Raise

\* FoodDatabaseManager._apply_calorie_correction:
\*   int(calories_per_100g * corrected_weight / 100 * correction_factor)
apply_calorie_correction(food_key, food_data, corrected_weight) ==
    Num(T(TruncDiv(food_data.calories_per_100g.v * corrected_weight.v
                     * calorie_correction_factor(food_key),
                   100000)))

NoInfo == [found |-> FALSE, name |-> "<none>", source |-> "<none>",
           weight_g |-> NonNum("absent"), calories_per_100g |-> NonNum("absent"),
           total_calories |-> NonNum("absent"), match_score |-> NonNum("absent"),
           protein |-> NonNum("absent"), carbs |-> NonNum("absent"),
           fat |-> NonNum("absent")]

\* round(nutrient * estimated_weight_g / 100, 1), all in tenths
ScaleNutrient(per100, weight) == Num(FloatRound(per100, weight, 1000))

\* the branch of source 'russian_database', the weight corrected
russian_info(best_match, food_key, corrected_weight) ==
    IF corrected_weight.st = "raise" THEN Raise
    ELSE Ok([NoInfo EXCEPT
        !.found = TRUE,
        !.name = best_match.name,
        !.source = "russian_database_corrected",
        !.weight_g = corrected_weight.val,
        !.calories_per_100g = best_match.calories_per_100g,
        !.total_calories =
            apply_calorie_correction(food_key, best_match, corrected_weight.val),
        !.match_score = best_match.match_score])

\* the branch of source 'fatsecret', the details fetched; round(nan) raises
fatsecret_info(details, estimated_weight_g) ==
    IF details.found /\ details.has100g
    THEN IF ~IsNum(estimated_weight_g) THEN Raise
         ELSE Ok([NoInfo EXCEPT
             !.found = TRUE,
             !.name = details.name,
             !.source = "fatsecret",
             !.weight_g = estimated_weight_g,
             !.calories_per_100g = Num(details.nutrition.calories),
             !.total_calories =
                 Num(T(FloatRound(
                     details.nutrition.calories, estimated_weight_g.v, 10000))),
             !.protein = ScaleNutrient(details.nutrition.protein, estimated_weight_g.v),
             !.carbs = ScaleNutrient(details.nutrition.carbs, estimated_weight_g.v),
             !.fat = ScaleNutrient(details.nutrition.fat, estimated_weight_g.v)])
    ELSE Ok(NoInfo)

\* the branches on the source of the best match
info_of_best_match(best_match, estimated_weight_g, enabled, answer3) ==
    IF best_match.source = "russian_database"
    THEN russian_info(best_match, LowerStrip(best_match.name),
                      apply_weight_correction(LowerStrip(best_match.name),
                                              estimated_weight_g))
    ELSE IF best_match.source = "fatsecret" /\ enabled
    THEN fatsecret_info(fatsecret_get_food_details(enabled, best_match.id, answer3),
                        estimated_weight_g)
    ELSE Ok(NoInfo)

info_of_results(search_results, estimated_weight_g, enabled, answer3) ==
    IF search_results.st = "raise" THEN Raise
    ELSE IF search_results.val = <<>> THEN Ok(NoInfo)
    ELSE info_of_best_match(search_results.val[1], estimated_weight_g, enabled, answer3)

\* FoodDatabaseManager.get_nutrition_info(food_name, estimated_weight_g):
\* Ok(NoInfo) is None
get_nutrition_info(food_name, estimated_weight_g, enabled, answer1, answer2, answer3) ==
    info_of_results(manager_search_food(food_name, enabled, answer1, answer2),
                    estimated_weight_g, enabled, answer3)

(***************************************************************************)
(* The reply of the vision model.  A content is a record                   *)
(*   toks  the text as a sequence of tokens, joined by single spaces:      *)
(*           "D"  the text of the JSON object doc ("{" ... "}")            *)
(*           "L"  the text of a JSON value that is no object and has no    *)
(*                brace, such as [1, 2]                                    *)
(*           "P"  prose without brace or backtick,  "S"  five such letters *)
(*           "B"  prose in braces, such as {note}                          *)
(*           "J"  the fence ```json,  "F"  the fence ```                   *)
(*   doc   the JSON object every "D" stands for                            *)
(*   kw    the food keywords the prose of the text contains, in the order  *)
(*         of food_keywords                                                *)
(***************************************************************************)
TokLen(tok) ==
    CASE tok = "D" -> 40
      [] tok = "L" -> 6
      [] tok = "P" -> 12
      [] tok = "S" -> 5
      [] tok = "B" -> 6
      [] tok = "J" -> 7
      [] tok = "F" -> 3

RECURSIVE TokStart(_, _)
\* index of the first character of token i
TokStart(toks, i) ==
    IF i = 1 THEN 0 ELSE TokStart(toks, i - 1) + TokLen(toks[i - 1]) + 1

TokEnd(toks, i) == TokStart(toks, i) + TokLen(toks[i])

Min(S) == CHOOSE x \in S : \A y \in S : x <= y
Max(S) == CHOOSE x \in S : \A y \in S : x >= y

\* content.find(sub, from) and content.rfind(sub), sub given by the tokens
\* that begin with it; -1 when there is none
Find(toks, kinds, from) ==
    LET hits == {TokStart(toks, i) : i \in {j \in DOMAIN toks :
                    toks[j] \in kinds /\ TokStart(toks, j) >= from}}
    IN  IF hits = {} THEN -1 ELSE Min(hits)

\* rfind of a closing brace: the last character of the last token in braces
RFindBrace(toks) ==
    LET hits == {TokEnd(toks, i) - 1 : i \in {j \in DOMAIN toks : toks[j] \in {"D", "B"}}}
    IN  IF hits = {} THEN -1 ELSE Max(hits)

RFindFence(toks) ==
    LET hits == {TokStart(toks, i) : i \in {j \in DOMAIN toks : toks[j] \in {"J", "F"}}}
    IN  IF hits = {} THEN -1 ELSE Max(hits)

\* json.loads(content[start:end].strip()): "dict" or "nondict" when the
\* slice is one whole JSON text between optional spaces, else "error"
\* (json.JSONDecodeError)
json_loads_slice(toks, start, end) ==
    LET whole == {i \in DOMAIN toks :
                    /\ toks[i] \in {"D", "L"}
                    /\ start <= TokStart(toks, i)
                    /\ start >= TokStart(toks, i) - 1
                    /\ end >= TokEnd(toks, i)
                    /\ end <= TokEnd(toks, i) + 1}
    IN  IF whole = {} THEN "error"
        ELSE IF toks[CHOOSE i \in whole : TRUE] = "D" THEN "dict" ELSE "nondict"

\* json_patterns of _parse_ai_response: the three (start, end) pairs
json_patterns(toks) ==
    LET fence_json == Find(toks, {"J"}, 0)
        fence == Find(toks, {"J", "F"}, 0)
    IN  << <<Find(toks, {"D", "B"}, 0), RFindBrace(toks) + 1>>,
           <<fence_json + 7, Find(toks, {"J", "F"}, fence_json + 7)>>,
           <<fence + 3, RFindFence(toks)>> >>

\* the loop over json_patterns: the first slice that json.loads accepts
extract_json(toks) ==
    LET pats == json_patterns(toks)
        try(i) == IF pats[i][1] # -1 /\ pats[i][2] > pats[i][1]
                  THEN json_loads_slice(toks, pats[i][1], pats[i][2])
                  ELSE "error"
    IN  IF try(1) # "error" THEN try(1)
        ELSE IF try(2) # "error" THEN try(2)
        ELSE try(3)

(***************************************************************************)
(* Results: the dict that _parse_ai_response, _create_fallback_result and  *)
(* enhance_analysis_with_database return.  database_matches and           *)
(* total_items are counts (not tenths).  error is True when the 'error'    *)
(* key of the fallback result is set.                                      *)
(***************************************************************************)
Result(items, total, tp, tc, tf, conf) ==
    [food_items |-> items, total_calories |-> total, total_proteins |-> tp,
     total_carbs |-> tc, total_fats |-> tf, confidence |-> conf,
     database_matches |-> NonNum("absent"), total_items |-> NonNum("absent"),
     error |-> FALSE]

\* a + b of Python on two JSON values: TypeError unless both are numbers
PyAdd(a, b) ==
    IF a.st = "raise" THEN Raise
    ELSE IF a.val.t \notin {"num", "nan"} \/ b.t \notin {"num", "nan"} THEN Raise
    ELSE IF a.val.t = "nan" \/ b.t = "nan" THEN Ok(NaN)
    ELSE Ok(Num(a.val.v + b.v))

RECURSIVE PySumFrom(_, _, _)
PySumFrom(acc, seq, i) ==
    IF i > Len(seq) THEN acc ELSE PySumFrom(PyAdd(acc, seq[i]), seq, i + 1)

\* sum(values): 0 + values[1] + ...
PySum(seq) == PySumFrom(Ok(Num(0)), seq, 1)

FieldSeq(items, field) == [i \in DOMAIN items |-> items[i][field]]

Missing == NonNum("missing")

Doc(kind, items, total, conf) ==
    [food_items |-> [k |-> kind, items |-> items],
     total_calories |-> total, confidence |-> conf]

Content(toks, doc, kw) == [toks |-> toks, doc |-> doc, kw |-> kw]

NoDoc == Doc("missing", <<>>, Missing, Missing)

\* a text without JSON, such as the message of an error: prose that holds
\* the food keywords kw
Message(kw) == Content(<<"P">>, NoDoc, kw)

\* food_keywords of _create_fallback_result
food_keywords ==
    <<"steak", "meat", "chicken", "fish", "bread", "rice", "potato", "salad",
      "food", "meal">>

\* word.lower() in content.lower(): the word is in the prose, or it is
\* "food" and the text holds a JSON object with the key "food_items" (no
\* other key and no name of the objects of the model holds a keyword)
keyword_in(word, text) ==
    \/ \E i \in DOMAIN text.kw : text.kw[i] = word
    \/ /\ word = "food"
       /\ text.doc.food_items.k # "missing"
       /\ \E i \in DOMAIN text.toks : text.toks[i] = "D"

\* found_foods: the keywords that occur in the content, in the order of
\* food_keywords
found_foods(text) ==
    SelectSeq(food_keywords, LAMBDA word : keyword_in(word, text))

\* f"Eda ({', '.join(found_foods[:2])})", or the name of an unknown dish
fallback_name(found) ==
    CASE found = <<>> -> "<Blyudo (ne udalos raspoznat)>"
      [] Len(found) = 1 -> "<Eda> (" \o found[1] \o ")"
      [] OTHER -> "<Eda> (" \o found[1] \o ", " \o found[2] \o ")"

\* the result built from the keywords found
fallback_result_of(found) ==
    LET calories_estimate == IF found # <<>> THEN T(400) ELSE T(350)
        item == [Item(fallback_name(found), WStr("s_ru", T(250)), Num(calories_estimate),
                      Num(T(20)), Num(T(25)), Num(T(15)))
                 EXCEPT !.certainty = "low"]
    IN  [Result(<<item>>, Num(calories_estimate), Num(T(20)), Num(T(25)),
                Num(T(15)), Num(T(30)))
         EXCEPT !.error = TRUE]

\* CalorieAnalyzer._create_fallback_result(content): text is the content
create_fallback_result(text) == fallback_result_of(found_foods(text))

(***************************************************************************)
(* CalorieAnalyzer._parse_ai_response.  A doc is the decoded JSON object:  *)
(*   food_items   [k, items]: k = "list", "missing" or "notlist"           *)
(*   total_calories, confidence   JSON values, "missing" when absent       *)
(* An entry of food_items that is no JSON object is NonDictEntry.           *)
(***************************************************************************)
NonDictEntry ==
    Item("<nondict>", WMissing, NonNum("missing"), NonNum("missing"),
         NonNum("missing"), NonNum("missing"))

\* dict.setdefault(key, default) on a JSON value
SetDefault(x, default) == IF x.t = "missing" THEN default ELSE x

\* the setdefault calls on one food item
backfill_item(item) ==
    [item EXCEPT
        !.name = IF @ = "<missing>" THEN "<Neizvestnyy produkt>" ELSE @,
        !.estimated_weight = IF @.k = "missing" THEN WStr("s_ru", T(100)) ELSE @,
        !.calories = SetDefault(@, Num(T(100))),
        !.proteins = SetDefault(@, Num(T(5))),
        !.carbs = SetDefault(@, Num(T(10))),
        !.fats = SetDefault(@, Num(T(5))),
        !.certainty = IF @ = "<missing>" THEN "medium" ELSE @]

\* validate_doc leaving total_calories as the response gives it
validate_doc_total_kept(doc) ==
    LET entries == IF doc.food_items.k = "list" THEN doc.food_items.items ELSE <<>>
        dicts == SelectSeq(entries, LAMBDA e : e # NonDictEntry)
        valid_items == [i \in DOMAIN dicts |-> backfill_item(dicts[i])]
        total0 == SetDefault(doc.total_calories, Num(0))
        confidence == SetDefault(doc.confidence, Num(T(50)))
        total_proteins == PySum(FieldSeq(valid_items, "proteins"))
        total_carbs == PySum(FieldSeq(valid_items, "carbs"))
        total_fats == PySum(FieldSeq(valid_items, "fats"))
        recompute == FALSE
        total == IF recompute THEN PySum(FieldSeq(valid_items, "calories"))
                 ELSE Ok(total0)
    IN  IF "raise" \in {total_proteins.st, total_carbs.st, total_fats.st, total.st}
        THEN Raise
        ELSE [st |-> "ok",
              val |-> Result(valid_items, total.val, total_proteins.val,
                             total_carbs.val, total_fats.val, confidence)]

\* the validation of a decoded JSON object; TypeError of a sum is not caught
validate_doc(doc) ==
    LET entries == IF doc.food_items.k = "list" THEN doc.food_items.items ELSE <<>>
        dicts == SelectSeq(entries, LAMBDA e : e # NonDictEntry)
        valid_items == [i \in DOMAIN dicts |-> backfill_item(dicts[i])]
        total0 == SetDefault(doc.total_calories, Num(0))
        confidence == SetDefault(doc.confidence, Num(T(50)))
        total_proteins == PySum(FieldSeq(valid_items, "proteins"))
        total_carbs == PySum(FieldSeq(valid_items, "carbs"))
        total_fats == PySum(FieldSeq(valid_items, "fats"))
        recompute == IsNum(total0) /\ total0.v = 0 /\ valid_items # <<>>
        total == IF recompute THEN PySum(FieldSeq(valid_items, "calories"))
                 ELSE Ok(total0)
    IN  IF "raise" \in {total_proteins.st, total_carbs.st, total_fats.st, total.st}
        THEN Raise
        ELSE [st |-> "ok",
              val |-> Result(valid_items, total.val, total_proteins.val,
                             total_carbs.val, total_fats.val, confidence)]

parse_ai_response(text) ==
    IF extract_json(text.toks) = "dict"
    THEN validate_doc(text.doc)
    ELSE [st |-> "ok", val |-> create_fallback_result(text)]

(***************************************************************************)
(* The requests one lookup sends to FatSecret, in the order they are sent, *)
(* each with the answer it got.  A call of FatSecretAPI.search_food or     *)
(* get_food_details sends a request only when the API is enabled.          *)
(***************************************************************************)
Request(op, answer) == [op |-> op, answer |-> answer]

\* RussianFoodDatabase.search_food asks FatSecret when it found nothing
inner_search_requests(query, enabled, answer1) ==
    IF enabled /\ query \notin DOMAIN RUSSIAN_FOODS /\ fuzzy_search(query) = <<>>
    THEN <<Request("search", answer1)>>
    ELSE <<>>

\* FoodDatabaseManager.search_food: the search of the curated database, then
\* its own search in FatSecret
search_requests(name, enabled, answer1, answer2) ==
    IF name = NonStrName THEN <<>>
    ELSE inner_search_requests(translate_query(LowerStrip(name)), enabled, answer1)
         \o (IF enabled THEN <<Request("search", answer2)>> ELSE <<>>)

\* FoodDatabaseManager.get_nutrition_info asks for the details of the best
\* match when it is a result of FatSecret
details_requests(search_results, enabled, answer3) ==
    IF /\ search_results.st = "ok"
       /\ search_results.val # <<>>
       /\ search_results.val[1].source = "fatsecret"
       /\ enabled
    THEN <<Request("details", answer3)>>
    ELSE <<>>

\* the candidates FoodDatabaseManager.search_food returns in the lookup of one
\* item; none when the lookup is not reached or raises
candidates_of(search_results) ==
    IF search_results.st = "raise" THEN <<>> ELSE search_results.val

lookup_candidates(item, enabled, answer1, answer2) ==
    IF extract_weight_from_item(item).st = "raise" THEN <<>>
    ELSE candidates_of(manager_search_food(item.name, enabled, answer1, answer2))

\* the requests of the lookup of one item of enhance_analysis_with_database
lookup_requests(item, enabled, answer1, answer2, answer3) ==
    IF extract_weight_from_item(item).st = "raise" THEN <<>>
    ELSE search_requests(item.name, enabled, answer1, answer2)
         \o details_requests(manager_search_food(item.name, enabled, answer1, answer2),
                             enabled, answer3)

(***************************************************************************)
(* CalorieAnalyzer.enhance_analysis_with_database: the body of its loop    *)
(* for one item.  Ok([matched, item]) or Raise.                            *)
(***************************************************************************)
DB_LABEL(source) ==
    IF source = "russian_database_corrected"
    THEN "[chart] russian_database_corrected"
    ELSE "[chart] fatsecret"
AI_LABEL == "[robot] AI <analiz>"

\* nutrition_info.get(key, item.get(field, 0))
InfoOrItem(x, y) ==
    IF x.t # "absent" THEN x ELSE IF y.t = "missing" THEN Num(0) ELSE y

\* enhanced_item_of counting every item as a match of the database
enhanced_item_of_all_counted(item, nutrition_info) ==
    IF nutrition_info.st = "raise" THEN Raise
    ELSE IF nutrition_info.val.found
    THEN [st |-> "ok",
          val |-> [matched |-> TRUE,
                   item |->
            [name |-> nutrition_info.val.name,
             estimated_weight |-> WStr("s_ru", nutrition_info.val.weight_g.v),
             calories |-> nutrition_info.val.total_calories,
             proteins |-> InfoOrItem(nutrition_info.val.protein, item.proteins),
             carbs |-> InfoOrItem(nutrition_info.val.carbs, item.carbs),
             fats |-> InfoOrItem(nutrition_info.val.fat, item.fats),
             certainty |-> "<absent>",
             source |-> DB_LABEL(nutrition_info.val.source),
             match_score |-> IF nutrition_info.val.match_score.t = "absent"
                             THEN Num(0) ELSE nutrition_info.val.match_score,
             calories_per_100g |-> nutrition_info.val.calories_per_100g]]]
    ELSE [st |-> "ok",
          val |-> [matched |-> TRUE, item |-> [item EXCEPT !.source = AI_LABEL]]]

\* the item built from the nutrition info, or the copy of the item
enhanced_item_of(item, nutrition_info) ==
    IF nutrition_info.st = "raise" THEN Raise
    ELSE IF nutrition_info.val.found
    THEN [st |-> "ok",
          val |-> [matched |-> TRUE,
                   item |->
            [name |-> nutrition_info.val.name,
             estimated_weight |-> WStr("s_ru", nutrition_info.val.weight_g.v),
             calories |-> nutrition_info.val.total_calories,
             proteins |-> InfoOrItem(nutrition_info.val.protein, item.proteins),
             carbs |-> InfoOrItem(nutrition_info.val.carbs, item.carbs),
             fats |-> InfoOrItem(nutrition_info.val.fat, item.fats),
             certainty |-> "<absent>",
             source |-> DB_LABEL(nutrition_info.val.source),
             match_score |-> IF nutrition_info.val.match_score.t = "absent"
                             THEN Num(0) ELSE nutrition_info.val.match_score,
             calories_per_100g |-> nutrition_info.val.calories_per_100g]]]
    ELSE [st |-> "ok",
          val |-> [matched |-> FALSE, item |-> [item EXCEPT !.source = AI_LABEL]]]

enhance_with_weight(item, estimated_weight, enabled, answer1, answer2, answer3) ==
    IF estimated_weight.st = "raise" THEN Raise
    ELSE enhanced_item_of(item,
             get_nutrition_info(item.name, estimated_weight.val, enabled,
                                answer1, answer2, answer3))

enhance_item(item, enabled, answer1, answer2, answer3) ==
    enhance_with_weight(item, extract_weight_from_item(item), enabled,
                        answer1, answer2, answer3)

\* min(a, b) on tenths
MinOf(a, b) == IF b < a THEN b ELSE a
MaxOf(a, b) == IF b > a THEN b ELSE a

CONFIDENCE_CAP == 95
BOOST_CAP == 20
BOOST_PER_MATCH == 10

\* boosted_confidence without the cap of the boost: +10 for every match
boosted_confidence_uncapped_boost(original_confidence, matches) ==
    IF matches > 0
    THEN IF original_confidence.t = "nan" THEN Ok(Num(T(CONFIDENCE_CAP)))
         ELSE IF ~IsNum(original_confidence) THEN Raise
         ELSE Ok(Num(MinOf(T(CONFIDENCE_CAP),
                           original_confidence.v + T(matches * BOOST_PER_MATCH))))
    ELSE Ok(original_confidence)

\* the confidence of the enhanced result: Ok(value) or Raise (TypeError of
\* original_confidence + confidence_boost).  min(95, nan) is 95: the
\* comparison nan < 95 is false, so min keeps its first argument
boosted_confidence(original_confidence, matches) ==
    IF matches > 0
    THEN IF original_confidence.t = "nan" THEN Ok(Num(T(CONFIDENCE_CAP)))
         ELSE IF ~IsNum(original_confidence) THEN Raise
         ELSE Ok(Num(MinOf(T(CONFIDENCE_CAP),
                           original_confidence.v
                             + MinOf(T(BOOST_CAP), T(matches * BOOST_PER_MATCH)))))
    ELSE Ok(original_confidence)

(***************************************************************************)
(* The inputs of the model                                                 *)
(***************************************************************************)
MaxItems == 3

Prot5 == Num(T(5))
Carbs10 == Num(T(10))

CoreBorshch == Item("<borshch>", WStr("s_ru", T(160)), Num(T(200)), Prot5, Carbs10, Prot5)
CoreUnknown == Item("zzz", WStr("s_ru", T(300)), Num(1005), Prot5, Carbs10, Prot5)
CoreNonStr == Item(NonStrName, WStr("s_ru", T(300)), Num(T(200)), Prot5, Carbs10, Prot5)
CorePool == {CoreBorshch, CoreUnknown, CoreNonStr}

ExtPool ==
    {Item("Borscht ", WStr("s_ru", T(30)), Num(T(200)), Prot5, Carbs10, Prot5),
     Item("<smetana>", WStr("s_ru", 605), Num(1005), Prot5, Carbs10, Prot5),
     Item("<kuritsa>", WMissing, Missing, Missing, Missing, Missing),
     Item("zzz", WStr("s_text", 0), NonNum("str"), Prot5, Carbs10, Prot5),
     Item("zzz", WStr("s_ru", T(300)), NonNum("str"), Prot5, Carbs10, Prot5),
     Item("zzz", WStr("s_nan", 0), Num(T(200)), Prot5, Carbs10, Prot5),
     Item("zzz", WStr("s_ru", T(300)), Num(T(200)), NonNum("str"), Carbs10, Prot5),
     Item("<borshch>", WStr("s_nan", 0), Num(T(200)), Prot5, Carbs10, Prot5),
     Item("<borshch ukrainskiy>", WStr("s_lat", T(320)), Num(T(500)), Prot5, Carbs10, Prot5),
     Item("<borshch so smetanoy>", WStr("number", T(320)), Num(T(500)), Prot5, Carbs10, Prot5),
     Item("<missing>", WStr("s_text", 0), Num(T(500)), Prot5, Carbs10, Prot5),
     Item("Apple", WStr("s_ru", T(150)), Num(T(80)), Prot5, Carbs10, Prot5),
     Item("Apple", WStr("s_ru", 1625), Num(T(80)), Prot5, Carbs10, Prot5),
     Item("Apple", WStr("s_nan", 0), Num(T(80)), Prot5, Carbs10, Prot5),
     Item("<borshch>", WStr("s_lat", T(300)), Num(T(200)), Prot5, Carbs10, Prot5),
     Item("<borshch>", WStr("s_lat", T(300)), Num(T(500)), Prot5, Carbs10, Prot5),
     Item("pancakes", WStr("s_ru", T(250)), Num(T(500)), Prot5, Carbs10, Prot5),
     Item("<bliny>", WStr("s_ru", 1255), Num(T(300)), Prot5, Carbs10, Prot5),
     Item("<bliny>", WStr("s_ru", 1245), Num(T(300)), Prot5, Carbs10, Prot5),
     Item("<kuritsa>", WStr("s_ru", 3205), Num(T(500)), Prot5, Carbs10, Prot5),
     NonDictEntry}

RECURSIVE SeqsUpTo(_, _)
\* the sequences over S of length at most n
SeqsUpTo(S, n) ==
    IF n = 0 THEN {<<>>}
    ELSE LET shorter == SeqsUpTo(S, n - 1)
         IN  shorter \cup {Append(q, x) : q \in shorter, x \in S}

ItemLists ==
    SeqsUpTo(CorePool, MaxItems)
        \cup {<<e>> : e \in ExtPool}
        \cup {<<CoreBorshch, e>> : e \in ExtPool}
        \cup {<<e, CoreBorshch>> : e \in ExtPool}

ConfValues ==
    {Missing, Num(T(-50)), Num(0), Num(T(50)), Num(T(90)), Num(T(100)),
     Num(T(150)), NaN, NonNum("str")}
TotalValues == {Missing, Num(T(999)), NonNum("str")}

Docs ==
    {Doc("list", items, total, conf) :
        items \in ItemLists, total \in TotalValues, conf \in ConfValues}
    \cup {Doc(kind, <<>>, Num(0), Num(0)) : kind \in {"missing", "notlist"}}

KwValues ==
    {<<>>, <<"steak">>, <<"steak", "meat">>, <<"fish", "rice", "potato">>,
     <<"meal">>}

Shapes ==
    {<<"P">>, <<"P", "D">>, <<"P", "D", "P">>, <<"J", "D", "F">>,
     <<"F", "D", "F">>, <<"D", "D">>, <<"B", "J", "D", "F">>,
     <<"B", "F", "D", "F">>, <<"B", "D">>, <<"J", "L", "F">>, <<"S", "L", "F">>,
     <<"P", "L", "F">>}

\* the text has prose of any length, where food keywords can stand
HasProse(toks) == \E i \in DOMAIN toks : toks[i] \in {"P", "B"}

ShapeDocs ==
    {Doc("list", <<CoreBorshch, CoreUnknown>>, total, Num(T(50))) :
        total \in {Num(0), Num(T(999))}}

Contents ==
    {Content(<<"D">>, doc, <<>>) : doc \in Docs}
    \cup {Content(c[1], c[2], c[3]) :
              c \in {x \in Shapes \X ShapeDocs \X KwValues :
                        x[3] = <<>> \/ HasProse(x[1])}}


NoContent == Content(<<>>, NoDoc, <<>>)
NoResult == Result(<<>>, Missing, Missing, Missing, Missing, Missing)
NoParse == [st |-> "none", val |-> NoResult]

(***************************************************************************)
(* translate_food_name.  A name is the sequence of its characters; a       *)
(* translation (a value of FOOD_TRANSLATIONS) is one transliterated        *)
(* string.  The function returns a translation, the default name or the    *)
(* name it was given: Translated(text), the same with DefaultName, or      *)
(* Original(chars).                                                        *)
(***************************************************************************)
Lowers == <<"a", "b", "c", "d", "e", "f", "g", "h", "i", "j", "k", "l", "m",
            "n", "o", "p", "q", "r", "s", "t", "u", "v", "w", "x", "y", "z">>
Uppers == <<"A", "B", "C", "D", "E", "F", "G", "H", "I", "J", "K", "L", "M",
            "N", "O", "P", "Q", "R", "S", "T", "U", "V", "W", "X", "Y", "Z">>

\* str.lower() and str.upper() on one character
lower_char(c) ==
    IF \E i \in DOMAIN Uppers : Uppers[i] = c
    THEN Lowers[CHOOSE i \in DOMAIN Uppers : Uppers[i] = c]
    ELSE c

upper_char(c) ==
    IF \E i \in DOMAIN Lowers : Lowers[i] = c
    THEN Uppers[CHOOSE i \in DOMAIN Lowers : Lowers[i] = c]
    ELSE c

str_lower(chars) == [i \in DOMAIN chars |-> lower_char(chars[i])]
str_upper(chars) == [i \in DOMAIN chars |-> upper_char(chars[i])]

\* str.strip(): without the spaces at both ends
str_strip(chars) ==
    IF \A i \in DOMAIN chars : chars[i] = " " THEN <<>>
    ELSE SubSeq(chars,
                CHOOSE i \in DOMAIN chars :
                    chars[i] # " " /\ \A j \in 1..(i - 1) : chars[j] = " ",
                CHOOSE i \in DOMAIN chars :
                    chars[i] # " " /\ \A j \in (i + 1)..Len(chars) : chars[j] = " ")

\* key in text
str_contains(text, key) ==
    \E i \in 0..(Len(text) - Len(key)) : SubSeq(text, i + 1, i + Len(key)) = key

\* the entries of FOOD_TRANSLATIONS the model keeps, in the order of the dict
FOOD_TRANSLATIONS ==
    <<[key |-> <<"h", "a", "m", " ", "a", "n", "d", " ", "c", "h", "e", "e", "s", "e", " ", "s", "a", "n", "d", "w", "i", "c", "h">>,
       value |-> "<buterbrod s vetchinoy i syrom>"],
      [key |-> <<"p", "a", "n", "c", "a", "k", "e", "s">>,
       value |-> "<bliny>"],
      [key |-> <<"s", "a", "l", "m", "o", "n">>,
       value |-> "<losos>"],
      [key |-> <<"t", "e", "a">>,
       value |-> "<chay>"],
      [key |-> <<"b", "l", "a", "c", "k", " ", "t", "e", "a">>,
       value |-> "<chernyy chay>"],
      [key |-> <<"s", "t", "e", "a", "k">>,
       value |-> "<steyk>"],
      [key |-> <<"c", "h", "e", "e", "s", "e">>,
       value |-> "<syr>"],
      [key |-> <<"h", "a", "m">>,
       value |-> "<vetchina>"]>>

Translated(text) == [kind |-> "translated", text |-> text, chars |-> <<>>]
Original(chars) == [kind |-> "original", text |-> "", chars |-> chars]
DefaultName == Translated("<Neizvestnoe blyudo>")
NoMatch == [value |-> "", length |-> 0]

\* best_match_from without the comparison of the lengths: the first key of
\* the dict that occurs in the name wins
best_match_from_first(english_lower, i, best) ==
    LET hits == {j \in i..Len(FOOD_TRANSLATIONS) :
                    str_contains(english_lower, FOOD_TRANSLATIONS[j].key)}
    IN  IF best.length > 0 \/ hits = {} THEN best
        ELSE [value |-> FOOD_TRANSLATIONS[Min(hits)].value,
              length |-> Len(FOOD_TRANSLATIONS[Min(hits)].key)]

RECURSIVE best_match_from(_, _, _)
\* the loop over FOOD_TRANSLATIONS.items(): best_match and best_match_length
best_match_from(english_lower, i, best) ==
    IF i > Len(FOOD_TRANSLATIONS) THEN best
    ELSE best_match_from(
             english_lower, i + 1,
             IF str_contains(english_lower, FOOD_TRANSLATIONS[i].key)
                /\ Len(FOOD_TRANSLATIONS[i].key) > best.length
             THEN [value |-> FOOD_TRANSLATIONS[i].value,
                   length |-> Len(FOOD_TRANSLATIONS[i].key)]
             ELSE best)

\* the partial match, or the name as it was given
partial_translation(english_name, best) ==
    IF best.value # "" THEN Translated(best.value) ELSE Original(english_name)

translate_lower(english_name, english_lower) ==
    IF \E i \in DOMAIN FOOD_TRANSLATIONS : FOOD_TRANSLATIONS[i].key = english_lower
    THEN Translated(FOOD_TRANSLATIONS[
             CHOOSE i \in DOMAIN FOOD_TRANSLATIONS :
                 FOOD_TRANSLATIONS[i].key = english_lower].value)
    ELSE partial_translation(english_name, best_match_from(english_lower, 1, NoMatch))

\* translate_food_name without .lower(): the keys are compared with the name
\* as it is written
translate_food_name_case_sensitive(english_name) ==
    IF english_name = <<>> THEN DefaultName
    ELSE translate_lower(english_name, str_strip(english_name))

translate_food_name(english_name) ==
    IF english_name = <<>> THEN DefaultName
    ELSE translate_lower(english_name, str_strip(str_lower(english_name)))

\* the names given to translate_food_name: in lower case, in upper case,
\* capitalised, and each of them between spaces
BaseNames ==
    {<<>>,
     <<"t", "e", "a">>,
     <<"i", "c", "e", "d", " ", "t", "e", "a">>,
     <<"h", "o", "t", " ", "b", "l", "a", "c", "k", " ", "t", "e", "a">>,
     <<"s", "t", "e", "a", "k">>,
     <<"s", "t", "e", "a", "k", "s">>,
     <<"h", "a", "m", " ", "t", "e", "a">>,
     <<"t", "e", "a", " ", "h", "a", "m">>,
     <<"b", "i", "g", " ", "h", "a", "m", " ", "a", "n", "d", " ", "c", "h", "e", "e", "s", "e", " ", "s", "a", "n", "d", "w", "i", "c", "h">>,
     <<"h", "a", "m", " ", "a", "n", "d", " ", "c", "h", "e", "e", "s", "e", " ", "s", "a", "n", "d", "w", "i", "c", "h">>,
     <<"c", "h", "e", "e", "s", "e", " ", "h", "a", "m">>,
     <<"z", "z", "z">>,
     <<"s", "a", "l", "m", "o", "n", " ", "t", "e", "a">>,
     <<"s", "m", "o", "k", "e", "d", " ", "h", "a", "m">>}

capitalized(chars) ==
    [i \in DOMAIN chars |-> IF i = 1 THEN upper_char(chars[i]) ELSE chars[i]]

CaseVariants(chars) == {chars, str_upper(chars), capitalized(chars)}

NameInputs ==
    UNION {CaseVariants(b) \cup {<<" ">> \o v \o <<" ">> : v \in CaseVariants(b)} :
               b \in BaseNames}

NoName == <<"?">>
NoTranslation == [kind |-> "none", text |-> "", chars |-> <<>>]

(***************************************************************************)
(* Specification of the weight resolver alone: any item, one call.         *)
(***************************************************************************)
WeightValues ==
    {WStr("s_ru", 0), WStr("s_ru", T(30)), WStr("s_ru", T(160)),
     WStr("s_ru", 3205), WStr("s_lat", T(320)), WStr("s_lat", T(30)),
     WStr("s_plain", T(200)),
     WStr("s_nan", 0), WStr("s_text", 0), WStr("number", T(320)),
     WStr("null", 0), WMissing}

CalorieValues ==
    {Num(T(500)), Num(T(100)), Num(T(101)), Num(125), Num(0), Num(T(-40)),
     NaN, NonNum("str"), NonNum("null"), NonNum("missing")}

WeightItems ==
    {Item("zzz", w, c, Num(T(5)), Num(T(10)), Num(T(5))) :
        w \in WeightValues, c \in CalorieValues}

NoItem == Item("<none>", WMissing, NonNum("missing"), NonNum("missing"),
               NonNum("missing"), NonNum("missing"))
NoRes == [st |-> "none", val |-> NonNum("null")]

(***************************************************************************)
(* DatabaseManager.add_food_entry and the daily statistics.  Time is a     *)
(* number of ticks; a day has the ticks 0 .. LastTick, and LastTick is     *)
(* the time datetime.max.time() of the day.                                *)
(***************************************************************************)
MaxEntries == 3
MaxDay == 2
LastTick == 2

TicksPerDay == LastTick + 1
Users == {1, 2}
Days == 0 .. (MaxDay - 1)

\* the totals of an analysis, as the bot passes them to add_food_entry
Meals ==
    {[total_calories |-> 100, total_proteins |-> 5, total_carbs |-> 10,
      total_fats |-> 3],
     [total_calories |-> 250, total_proteins |-> 20, total_carbs |-> 30,
      total_fats |-> 10]}

\* FoodEntry(user_id=..., total_calories=..., ...), created_at by default now
FoodEntry(user_id, meal, now) ==
    [user_id |-> user_id, created_at |-> now,
     total_calories |-> meal.total_calories,
     total_proteins |-> meal.total_proteins,
     total_carbs |-> meal.total_carbs,
     total_fats |-> meal.total_fats]

\* created_at.date()
date_of(created_at) == created_at \div TicksPerDay

\* datetime.combine(date, datetime.min.time())
start_of_day(date) == date * TicksPerDay

\* datetime.combine(date, datetime.max.time())
end_of_day(date) == date * TicksPerDay + LastTick

\* the query of _update_daily_stats for the entries of the day
entries_of_day(entries, user_id, date) ==
    SelectSeq(entries,
        LAMBDA entry : /\ entry.user_id = user_id
                       /\ entry.created_at >= start_of_day(date)
                       /\ entry.created_at < end_of_day(date))

RECURSIVE sum_of(_, _)
\* sum(getattr(entry, field) for entry in entries)
sum_of(entries, field) ==
    IF entries = <<>> THEN 0
    ELSE Head(entries)[field] + sum_of(Tail(entries), field)

\* the row of daily statistics as _update_daily_stats sets it
stats_row(user_id, date, entries) ==
    [user_id |-> user_id, date |-> date,
     total_calories |-> sum_of(entries, "total_calories"),
     total_proteins |-> sum_of(entries, "total_proteins"),
     total_carbs |-> sum_of(entries, "total_carbs"),
     total_fats |-> sum_of(entries, "total_fats"),
     meals_count |-> Len(entries)]

\* the rows of daily statistics of the user and the date
stats_rows(stats, user_id, date) ==
    {i \in DOMAIN stats : stats[i].user_id = user_id /\ stats[i].date = date}

\* DatabaseManager._update_daily_stats: the first row of the user and the
\* date is updated, or a row is added
update_daily_stats(stats, entries, user_id, date) ==
    IF stats_rows(stats, user_id, date) = {}
    THEN Append(stats, stats_row(user_id, date,
                                 entries_of_day(entries, user_id, date)))
    ELSE [stats EXCEPT ![Min(stats_rows(stats, user_id, date))] =
              stats_row(user_id, date, entries_of_day(entries, user_id, date))]

\* what the running call has still to do: the user and the dates it passes
\* to _update_daily_stats; raised tells that a call of _update_daily_stats
\* has raised
Pending(user_id, dates, raised) ==
    [user_id |-> user_id, dates |-> dates, raised |-> raised]

\* the unique dates of the entries of the user, as rebuild_stats_command
\* queries them
unique_dates(entries, user_id) ==
    {date_of(entries[i].created_at) :
         i \in {j \in DOMAIN entries : entries[j].user_id = user_id}}

\* the tables are empty and no call is running
IdleStore ==
    /\ food_entries = <<>>
    /\ daily_stats = <<>>
    /\ clock = 0
    /\ pending = Pending(0, {}, FALSE)

(***************************************************************************)
(* The chat of the bot with one user: the updates it sends (buttons,       *)
(* texts, commands, photos), context.user_data and the row of the user.    *)
(* Numbers are in tenths.                                                  *)
(***************************************************************************)
Absent == "<absent>"      \* a key that user_data does not hold, or None

\* float('nan'): a value that no number equals
NaNF == 0 - 1

\* float('inf'): above every number of the chat
InfF == T(1000000)

\* a < b and a <= b of Python, false when an operand is nan
py_lt(a, b) == a # NaNF /\ b # NaNF /\ a < b

py_le(a, b) == a # NaNF /\ b # NaNF /\ a <= b

\* a text message: digits, a decimal with a point or a comma, a number and
\* a word, a word, 'nan', 'inf', '<kalorii> 850', or the text of a button
\* of the keyboard
Text(kind, v, word) == [kind |-> kind, v |-> v, word |-> word]

NoText == Text("none", 0, "")

\* the texts of the keyboard of get_main_keyboard
MenuTexts ==
    {"<Analiz edy>", "<Statistika>", "<Nastroyki>", "<Istoriya>", "<Pomoshch>",
     "<Glavnoe menyu>"}

TextPool ==
    {Text("int", T(2000), ""), Text("int", T(175), ""), Text("int", T(25), ""),
     Text("dot", 705, ""), Text("comma", 705, ""),
     Text("age_gender", T(25), "<muzhskoy>"), Text("word", 0, "abc"),
     Text("nan", 0, "nan"), Text("inf", 0, "inf"),
     Text("calories", T(850), "<kalorii>")}
        \cup {Text("menu", 0, word) : word \in MenuTexts}

\* int(text)
py_int(text) == IF text.kind = "int" THEN Ok(text.v) ELSE Raise

\* float(text)
py_float(text) ==
    CASE text.kind \in {"int", "dot"} -> Ok(text.v)
      [] text.kind = "nan" -> Ok(NaNF)
      [] text.kind = "inf" -> Ok(InfF)
      [] OTHER -> Raise

\* text.replace(',', '.')
replace_comma(text) ==
    IF text.kind = "comma" THEN [text EXCEPT !.kind = "dot"] ELSE text

\* len(text.split())
parts_of(text) == IF text.kind \in {"age_gender", "calories"} THEN 2 ELSE 1

\* the user_data of a new session
NoUserData ==
    [waiting_for |-> Absent, onboarding_gender |-> Absent, onboarding_age |-> 0,
     onboarding_height |-> 0, onboarding_weight |-> 0, last_photo_id |-> FALSE,
     last_analysis_result |-> FALSE, preserve_analysis_message |-> FALSE]

\* the row of a user as get_or_create_user creates it; exists tells that
\* the table holds the row
NewUser ==
    [exists |-> TRUE, daily_calorie_goal |-> T(2000), weight |-> 0, height |-> 0,
     age |-> 0, gender |-> Absent, activity_level |-> "moderate"]

\* the table users holds no row of the user
NoUser == [NewUser EXCEPT !.exists = FALSE]

\* DatabaseManager.get_or_create_user: the row of the user, created when
\* the table holds none
get_or_create_user(u) == [u EXCEPT !.exists = TRUE]

\* DatabaseManager.is_onboarding_completed
is_onboarding_completed(u) ==
    /\ u.exists
    /\ u.weight # 0
    /\ u.height # 0
    /\ u.age # 0
    /\ u.gender # Absent

\* what a handler left: user_data, the user, and how the handler ended.
\* The outcome "awaiting" is that of a handler suspended at an await with
\* a write still to come.  Where no statement after the first await touches
\* user_data or the tables, the handler is one step.
Handled(ud, u, handler, outcome) ==
    [user_data |-> ud, user |-> u, handler |-> handler, outcome |-> outcome]

\* a handler that only replies
answers(ud, u, handler) == Handled(ud, u, handler, "ok")

\* a handler that calls get_or_create_user and replies
shows(ud, u, handler) == Handled(ud, get_or_create_user(u), handler, "ok")

\* CalorieBotHandlers.start_command
start_command(ud, u) ==
    Handled([ud EXCEPT !.preserve_analysis_message = FALSE],
            get_or_create_user(u),
            IF is_onboarding_completed(u) THEN "start_command"
            ELSE "start_onboarding",
            "ok")

\* CalorieBotHandlers.fix_goal_command: force_update_user_goal finds the row
\* or does nothing
fix_goal_command(ud, u) ==
    IF u.exists
    THEN Handled(ud, [u EXCEPT !.daily_calorie_goal = T(3000)],
                 "fix_goal_command", "ok")
    ELSE Handled(ud, u, "fix_goal_command", "refused")

\* CalorieBotHandlers.reset_user_command: update_user_settings skips the
\* arguments that are None
reset_user_command(ud, u) ==
    Handled(ud, [get_or_create_user(u) EXCEPT !.daily_calorie_goal = T(2000)],
            "reset_user_command", "ok")

\* CalorieBotHandlers.onboarding_age up to the await of the message it edits
onboarding_age(ud, u, gender) ==
    Handled([ud EXCEPT !.onboarding_gender = gender], u, "onboarding_age",
            "awaiting")

\* CalorieBotHandlers.onboarding_height, the text parsed, up to the await
\* of the reply that asks for the height
onboarding_height(ud, u, age) ==
    IF age.st = "raise" THEN Handled(ud, u, "onboarding_height", "ValueError")
    ELSE IF age.val < T(10) \/ age.val > T(100)
    THEN Handled(ud, u, "onboarding_height", "rejected")
    ELSE IF ud.onboarding_gender = Absent
    THEN Handled([ud EXCEPT !.onboarding_age = age.val], u,
                 "onboarding_height", "KeyError")
    ELSE Handled([ud EXCEPT !.onboarding_age = age.val], u,
                 "onboarding_height", "awaiting")

\* CalorieBotHandlers.onboarding_weight, the text parsed, up to the await
\* of the reply that asks for the weight
onboarding_weight(ud, u, height) ==
    IF height.st = "raise" THEN Handled(ud, u, "onboarding_weight", "ValueError")
    ELSE IF py_lt(height.val, T(100)) \/ py_lt(T(250), height.val)
    THEN Handled(ud, u, "onboarding_weight", "rejected")
    ELSE IF ud.onboarding_gender = Absent \/ ud.onboarding_age = 0
    THEN Handled([ud EXCEPT !.onboarding_height = height.val], u,
                 "onboarding_weight", "KeyError")
    ELSE Handled([ud EXCEPT !.onboarding_height = height.val], u,
                 "onboarding_weight", "awaiting")

\* CalorieBotHandlers.onboarding_activity, the text parsed, up to the await
\* of the reply that asks for the activity
onboarding_activity(ud, u, weight) ==
    IF weight.st = "raise" THEN Handled(ud, u, "onboarding_activity", "ValueError")
    ELSE IF py_lt(weight.val, T(30)) \/ py_lt(T(200), weight.val)
    THEN Handled(ud, u, "onboarding_activity", "rejected")
    ELSE IF \/ ud.onboarding_gender = Absent
            \/ ud.onboarding_age = 0
            \/ ud.onboarding_height = 0
    THEN Handled([ud EXCEPT !.onboarding_weight = weight.val], u,
                 "onboarding_activity", "KeyError")
    ELSE Handled([ud EXCEPT !.onboarding_weight = weight.val], u,
                 "onboarding_activity", "awaiting")

\* CalorieBotHandlers.photo_handler up to the await of its first reply
photo_handler(ud, u) ==
    Handled([ud EXCEPT !.preserve_analysis_message = FALSE],
            get_or_create_user(u), "photo_handler", "awaiting")

\* the handlers that write user_data after an await
Suspending ==
    {"onboarding_age", "onboarding_height", "onboarding_weight",
     "onboarding_activity"}

\* context.user_data['waiting_for'] = ... after the await of the reply
waiting_for_after(handler) ==
    CASE handler = "onboarding_age" -> "age"
      [] handler = "onboarding_height" -> "height"
      [] handler = "onboarding_weight" -> "weight"
      [] handler = "onboarding_activity" -> "activity"

\* what photo_handler writes to user_data after the analysis
photo_analysed(ud) ==
    [ud EXCEPT !.last_photo_id = TRUE, !.last_analysis_result = TRUE,
               !.preserve_analysis_message = TRUE]

\* 'male' if 'muzh' in parts[1] else 'female' if 'zhen' in parts[1] else None
gender_of(word) ==
    CASE word = "<muzhskoy>" -> "male"
      [] word = "<zhenskiy>" -> "female"
      [] OTHER -> Absent

\* the branch of process_settings_input for the weight, the text parsed
weight_update(u, weight) ==
    IF weight.st = "ok" /\ py_le(T(20), weight.val) /\ py_le(weight.val, T(300))
    THEN Ok([u EXCEPT !.weight = weight.val]) ELSE Raise

\* the branches of process_settings_input: the user updated, or the user
\* as it was when the text is refused
settings_update(waiting_for, u, text) ==
    CASE waiting_for = "calorie_goal" ->
           IF py_int(text).st = "ok" /\ T(500) <= text.v /\ text.v <= T(5000)
           THEN Ok([u EXCEPT !.daily_calorie_goal = text.v]) ELSE Raise
      [] waiting_for = "weight" ->
           weight_update(u, py_float(replace_comma(text)))
      [] waiting_for = "height" ->
           IF py_int(text).st = "ok" /\ T(100) <= text.v /\ text.v <= T(250)
           THEN Ok([u EXCEPT !.height = text.v]) ELSE Raise
      [] waiting_for = "personal_info" ->
           IF /\ text.kind = "age_gender"
              /\ T(10) <= text.v /\ text.v <= T(120)
              /\ gender_of(text.word) # Absent
           THEN Ok([u EXCEPT !.age = text.v, !.gender = gender_of(text.word)])
           ELSE Raise
      [] OTHER -> Raise

\* CalorieBotHandlers.process_settings_input: waiting_for is popped at the end
process_settings_input(ud, u, updated) ==
    Handled([ud EXCEPT !.waiting_for = Absent],
            IF updated.st = "ok" THEN updated.val ELSE u,
            "process_settings_input",
            IF updated.st = "ok" THEN "ok" ELSE "refused")

\* CalorieBotHandlers.process_correction: the correction is answered and
\* stored nowhere; waiting_for is popped
process_correction(ud, u, text) ==
    Handled([ud EXCEPT !.waiting_for = Absent], get_or_create_user(u),
            "process_correction",
            IF text.kind = "calories"
            THEN (IF 0 <= text.v /\ text.v <= T(5000) THEN "ok" ELSE "refused")
            ELSE (IF parts_of(text) >= 2 THEN "ok" ELSE "refused"))

\* the branches of text_handler for the texts of the keyboard
menu_handler(ud, u, word) ==
    CASE word = "<Analiz edy>" -> answers(ud, u, "photo_tip_handler")
      [] word = "<Statistika>" -> shows(ud, u, "stats_command")
      [] word = "<Nastroyki>" -> shows(ud, u, "settings_command")
      [] word = "<Istoriya>" -> shows(ud, u, "history_command")
      [] word = "<Pomoshch>" -> answers(ud, u, "help_command")
      [] word = "<Glavnoe menyu>" -> start_command(ud, u)

\* CalorieBotHandlers.text_handler
text_handler(ud, u, text) ==
    CASE text.kind = "menu" -> menu_handler(ud, u, text.word)
      [] text.kind # "menu" /\ ud.waiting_for = "correction" ->
           process_correction(ud, u, text)
      [] text.kind # "menu" /\ ud.waiting_for = "age" ->
           onboarding_height(ud, u, py_int(text))
      [] text.kind # "menu" /\ ud.waiting_for = "height" ->
           onboarding_weight(ud, u, py_float(text))
      [] text.kind # "menu" /\ ud.waiting_for = "weight" ->
           onboarding_activity(ud, u, py_float(text))
      [] text.kind # "menu" /\ ud.waiting_for = Absent ->
           answers(ud, u, "reply_text")
      [] OTHER ->
           process_settings_input(ud, get_or_create_user(u),
               settings_update(ud.waiting_for, get_or_create_user(u), text))

SettingButtons ==
    {"set_calorie_goal", "set_weight", "set_height", "set_personal_info"}

\* CalorieBotHandlers.settings_input_handler: what the bot waits for
waiting_for_of(setting_type) ==
    CASE setting_type = "set_calorie_goal" -> "calorie_goal"
      [] setting_type = "set_weight" -> "weight"
      [] setting_type = "set_height" -> "height"
      [] setting_type = "set_personal_info" -> "personal_info"

\* User.calculate_daily_calorie_goal: 40 * bmr is an integer, the weight, the
\* height and the age in tenths
bmr40(u) ==
    40 * u.weight + 25 * u.height - 20 * u.age
        + (IF u.gender = "male" THEN 200 ELSE 0 - 6440)

activity_multiplier(activity_level) ==
    CASE activity_level = "low" -> 120
      [] activity_level = "high" -> 190
      [] OTHER -> 155

calculate_daily_calorie_goal(u) ==
    IF u.weight = 0 \/ u.height = 0 \/ u.age = 0 \/ u.gender = Absent
    THEN T(2000)
    ELSE T(MaxOf(TruncDiv(bmr40(u) * activity_multiplier(u.activity_level), 4000),
                     IF u.gender = "male" THEN 1500 ELSE 1200))

\* the goal DatabaseManager.complete_onboarding sets: int() of a nan raises
\* ValueError, and its except branch sets 2000
onboarding_goal(u) ==
    IF u.weight = NaNF \/ u.height = NaNF THEN T(2000)
    ELSE calculate_daily_calorie_goal(u)

\* a float as the table holds it after the commit: SQLite stores NULL for a
\* nan, PostgreSQL the nan
stored(v, sqlite_db) == IF v = NaNF /\ sqlite_db THEN 0 ELSE v

\* DatabaseManager.complete_onboarding: the row of the user afterwards,
\* created when the table holds none
onboarded_user(u, weight, height, age, gender, activity_level, sqlite_db) ==
    [u EXCEPT !.exists = TRUE,
              !.weight = stored(weight, sqlite_db),
              !.height = stored(height, sqlite_db),
              !.age = age,
              !.gender = gender,
              !.activity_level = activity_level,
              !.daily_calorie_goal =
                  onboarding_goal([weight |-> weight, height |-> height,
                                   age |-> age, gender |-> gender,
                                   activity_level |-> activity_level])]

\* CalorieBotHandlers.complete_onboarding: the keys of the onboarding and
\* waiting_for are popped
complete_onboarding(ud, u, activity_level, sqlite_db) ==
    IF \/ ud.onboarding_gender = Absent
       \/ ud.onboarding_age = 0
       \/ ud.onboarding_height = 0
       \/ ud.onboarding_weight = 0
    THEN Handled(ud, u, "complete_onboarding", "KeyError")
    ELSE Handled([ud EXCEPT !.waiting_for = Absent,
                            !.onboarding_gender = Absent,
                            !.onboarding_age = 0,
                            !.onboarding_height = 0,
                            !.onboarding_weight = 0],
                 onboarded_user(u, ud.onboarding_weight, ud.onboarding_height,
                                ud.onboarding_age, ud.onboarding_gender,
                                activity_level, sqlite_db),
                 "complete_onboarding", "ok")

\* CalorieBotHandlers.skip_onboarding: the onboarding is completed with a
\* weight of 70, a height of 170, an age of 30, male and moderate
skip_onboarding(ud, u, sqlite_db) ==
    Handled(ud, onboarded_user(u, T(70), T(170), T(30), "male", "moderate",
                               sqlite_db),
            "skip_onboarding", "ok")

\* CalorieBotHandlers.correction_handler
correction_handler(ud, u) ==
    IF ud.last_analysis_result
    THEN Handled([ud EXCEPT !.waiting_for = "correction"], u,
                 "correction_handler", "ok")
    ELSE Handled(ud, u, "correction_handler", "refused")

\* the callback data of the inline buttons the bot sends
Buttons ==
    SettingButtons \cup
    {"main_menu", "stats", "settings", "help", "add_more", "detailed_stats",
     "correct_analysis", "cancel_correction", "daily_history",
     "weekly_stats_detail", "back_to_profile", "edit_profile", "profile",
     "add_photo_tip", "my_goal", "data_status", "start_setup", "skip_setup",
     "gender_male", "gender_female", "activity_low", "activity_moderate",
     "activity_high"}

\* CalorieBotHandlers.button_handler
button_handler(ud, u, data, sqlite_db) ==
    CASE data = "main_menu" -> start_command(ud, u)
      [] data = "stats" -> shows(ud, u, "stats_handler")
      [] data = "settings" -> shows(ud, u, "settings_handler")
      [] data = "help" -> answers(ud, u, "help_command")
      [] data = "add_more" -> answers(ud, u, "send_message")
      [] data = "detailed_stats" -> shows(ud, u, "detailed_stats_handler")
      [] data \in SettingButtons ->
           Handled([ud EXCEPT !.waiting_for = waiting_for_of(data)], u,
                   "settings_input_handler", "ok")
      [] data = "correct_analysis" -> correction_handler(ud, u)
      [] data = "cancel_correction" ->
           Handled([ud EXCEPT !.waiting_for = Absent], u, "cancel_correction",
                   "ok")
      [] data = "daily_history" -> shows(ud, u, "daily_history_handler")
      [] data = "weekly_stats_detail" ->
           shows(ud, u, "weekly_stats_detail_handler")
      [] data = "back_to_profile" -> shows(ud, u, "back_to_profile_handler")
      [] data = "edit_profile" -> shows(ud, u, "settings_handler")
      [] data = "profile" -> shows(ud, u, "profile_callback_handler")
      [] data = "add_photo_tip" -> answers(ud, u, "photo_tip_handler")
      [] data = "my_goal" -> shows(ud, u, "my_goal_handler")
      [] data = "data_status" -> shows(ud, u, "data_status_handler")
      [] data = "start_setup" -> answers(ud, u, "onboarding_gender")
      [] data = "skip_setup" -> skip_onboarding(ud, u, sqlite_db)
      [] data = "gender_male" -> onboarding_age(ud, u, "male")
      [] data = "gender_female" -> onboarding_age(ud, u, "female")
      [] data = "activity_low" -> complete_onboarding(ud, u, "low", sqlite_db)
      [] data = "activity_moderate" ->
           complete_onboarding(ud, u, "moderate", sqlite_db)
      [] data = "activity_high" -> complete_onboarding(ud, u, "high", sqlite_db)
      [] OTHER -> answers(ud, u, "button_handler")

\* the commands webhook_server.py registers
WebhookCommands == {"start", "help", "stats", "settings"}

\* the commands of the administrator and /testai: they answer from the
\* tables, migrate the column telegram_id, create and delete the row of a
\* test user or call the model; none reads or writes user_data or the row
\* of the user of the chat
AdminCommands ==
    {"testai", "adminstats", "adminusers", "adminuser", "adminexport",
     "admintest", "forcemigration", "debugmigration", "admindebug", "admindb"}

\* the commands main of bot.py registers
Commands ==
    WebhookCommands \cup
    {"profile", "status", "fixgoal", "debuguser", "resetuser", "debugstats",
     "rebuildstats"} \cup AdminCommands

\* the handler of a command; /rebuildstats up to the loop over its dates
command_handler(ud, u, command) ==
    CASE command = "start" -> start_command(ud, u)
      [] command = "help" -> answers(ud, u, "help_command")
      [] command = "stats" -> shows(ud, u, "stats_handler")
      [] command = "settings" -> shows(ud, u, "settings_handler")
      [] command = "profile" -> shows(ud, u, "profile_command")
      [] command = "status" -> shows(ud, u, "status_command")
      [] command = "fixgoal" -> fix_goal_command(ud, u)
      [] command = "debuguser" -> shows(ud, u, "debug_user_command")
      [] command = "resetuser" -> reset_user_command(ud, u)
      [] command = "debugstats" -> shows(ud, u, "debug_stats_command")
      [] command = "rebuildstats" -> shows(ud, u, "rebuild_stats_command")
      [] command \in AdminCommands -> answers(ud, u, command)

\* a new session of a user the tables do not know
IdleChat ==
    /\ user_data = NoUserData
    /\ user = NoUser
    /\ last = Absent
    /\ suspended = <<>>
    /\ updates = 0

\* python bot.py with no environment: the bot polls, the database is the
\* SQLite file of config.DATABASE_URL
Polling ==
    /\ webhook = FALSE
    /\ sqlite = TRUE

\* the variables of the call of analyze_food_image, before it
IdleAnalyze ==
    /\ IdleStore
    /\ IdleChat
    /\ Polling
    /\ requests = <<>>
    /\ model_calls = 0
    /\ tests = 0
    /\ previous = <<>>
    /\ elapsed = "first"
    /\ candidates = <<>>
    /\ tname = NoName
    /\ tres = NoTranslation
    /\ content = NoContent
    /\ pres = NoParse
    /\ ai_result = NoResult
    /\ idx = 0
    /\ enhanced_items = <<>>
    /\ total_calories_enhanced = Num(0)
    /\ database_matches = 0
    /\ enh_error = FALSE
    /\ enh = NoResult
    /\ result = NoResult

InitWeight ==
    /\ pc = "weight"
    /\ witem \in WeightItems
    /\ wres = NoRes
    /\ api_key = TRUE
    /\ image = "bytes"
    /\ fs_enabled = FALSE
    /\ IdleAnalyze

ExtractWeight ==
    /\ pc = "weight"
    /\ wres = NoRes
    /\ wres' = extract_weight_from_item(witem)
    /\ UNCHANGED <<store_vars, chat_vars, pc, model_calls, tests, previous, elapsed, candidates, requests, tname, tres, witem, api_key, image, fs_enabled, content, pres,
                   ai_result, idx, enhanced_items, total_calories_enhanced,
                   database_matches, enh_error, enh, result>>

NextWeight == ExtractWeight

SpecWeight == InitWeight /\ [][NextWeight]_vars

(***************************************************************************)
(* Specification of translate_food_name alone: any name, one call.         *)
(***************************************************************************)
IdleCall ==
    /\ IdleStore
    /\ IdleChat
    /\ witem = NoItem
    /\ wres = NoRes
    /\ api_key = TRUE
    /\ image = "bytes"
    /\ fs_enabled = FALSE
    /\ content = NoContent
    /\ pres = NoParse
    /\ ai_result = NoResult
    /\ idx = 0
    /\ enhanced_items = <<>>
    /\ total_calories_enhanced = Num(0)
    /\ database_matches = 0
    /\ enh_error = FALSE
    /\ enh = NoResult
    /\ result = NoResult
    /\ requests = <<>>
    /\ model_calls = 0
    /\ tests = 0
    /\ previous = <<>>
    /\ elapsed = "first"
    /\ candidates = <<>>

InitTranslate ==
    /\ pc = "translate"
    /\ tname \in NameInputs
    /\ tres = NoTranslation
    /\ IdleCall
    /\ Polling

Translate ==
    /\ pc = "translate"
    /\ tres = NoTranslation
    /\ tres' = translate_food_name(tname)
    /\ UNCHANGED <<store_vars, chat_vars, pc, model_calls, tests, previous, elapsed, candidates, requests, tname, witem, wres, api_key, image, fs_enabled, content,
                   pres, ai_result, idx, enhanced_items, total_calories_enhanced,
                   database_matches, enh_error, enh, result>>

NextTranslate == Translate

SpecTranslate == InitTranslate /\ [][NextTranslate]_vars

(***************************************************************************)
(* Specification of one call of CalorieAnalyzer.analyze_food_image.        *)
(***************************************************************************)
Init ==
    /\ pc = "start"
    /\ witem = NoItem
    /\ wres = NoRes
    /\ api_key \in BOOLEAN
    /\ image \in {"bytes", "empty"}
    /\ fs_enabled \in BOOLEAN
    /\ IdleAnalyze

\* analyze_food_image returns value
ReturnWith(value) ==
    /\ result' = value
    /\ pc' = "done"

\* if not config.OPENAI_API_KEY: the fallback result
ReturnNoKey ==
    /\ pc = "start"
    /\ ~api_key
    /\ ReturnWith(create_fallback_result(Message(<<>>)))
    /\ UNCHANGED <<store_vars, chat_vars, model_calls, tests, previous, elapsed, candidates, requests, tname, tres, witem, wres, api_key, image, fs_enabled, content, pres,
                   ai_result, idx, enhanced_items, total_calories_enhanced,
                   database_matches, enh_error, enh>>

\* if len(image_bytes) == 0: the fallback result
ReturnEmptyImage ==
    /\ pc = "start"
    /\ api_key
    /\ image = "empty"
    /\ ReturnWith(create_fallback_result(Message(<<>>)))
    /\ UNCHANGED <<store_vars, chat_vars, model_calls, tests, previous, elapsed, candidates, requests, tname, tres, witem, wres, api_key, image, fs_enabled, content, pres,
                   ai_result, idx, enhanced_items, total_calories_enhanced,
                   database_matches, enh_error, enh>>

\* response = self.client.chat.completions.create(...) is reached with the
\* key set and the image not empty: the model is called once more.  A model
\* call that is skipped for an image analysed before comes first.
InvokeModel_unless_analysed ==
    /\ pc = "start"
    /\ api_key
    /\ image = "bytes"
    /\ model_calls' = IF \E k \in DOMAIN previous : previous[k].image = image
                      THEN model_calls
                      ELSE model_calls + 1

InvokeModel ==
    /\ pc = "start"
    /\ api_key
    /\ image = "bytes"
    /\ model_calls' = model_calls + 1

\* self.client.chat.completions.create raises: the except branch returns the
\* fallback result made of the message, which may hold food keywords
ModelCallRaises ==
    /\ InvokeModel
    /\ \E kw \in KwValues : ReturnWith(create_fallback_result(Message(kw)))
    /\ UNCHANGED <<store_vars, chat_vars, tests, previous, elapsed, candidates, requests, tname, tres, witem, wres, api_key, image,
                   fs_enabled, content, pres, ai_result, idx, enhanced_items,
                   total_calories_enhanced, database_matches, enh_error, enh>>

\* the reply has no content: the fallback result
ModelRepliesNothing ==
    /\ InvokeModel
    /\ ReturnWith(create_fallback_result(Message(<<>>)))
    /\ UNCHANGED <<store_vars, chat_vars, tests, previous, elapsed, candidates, requests, tname, tres, witem, wres, api_key, image,
                   fs_enabled, content, pres, ai_result, idx, enhanced_items,
                   total_calories_enhanced, database_matches, enh_error, enh>>

\* the reply has a content, one of replies
ModelRepliesFrom(replies) ==
    /\ InvokeModel
    /\ content' \in replies
    /\ pc' = "parse"
    /\ UNCHANGED <<store_vars, chat_vars, tests, previous, elapsed, candidates, requests, tname, tres, witem, wres, api_key, image,
                   fs_enabled, pres, ai_result, idx, enhanced_items,
                   total_calories_enhanced, database_matches, enh_error, enh, result>>

ModelReplies == ModelRepliesFrom(Contents \ {NoContent})

\* ai_result = self._parse_ai_response(content); what it raises is caught by
\* the except branch of analyze_food_image
Parse ==
    /\ pc = "parse"
    /\ pres' = parse_ai_response(content)
    /\ IF pres'.st = "raise"
       THEN /\ ReturnWith(create_fallback_result(Message(<<>>)))
            /\ UNCHANGED <<ai_result, idx, enhanced_items,
                           total_calories_enhanced, database_matches>>
       ELSE /\ ai_result' = pres'.val
            /\ idx' = 1
            /\ enhanced_items' = <<>>
            /\ total_calories_enhanced' = Num(0)
            /\ database_matches' = 0
            /\ pc' = "enhance"
            /\ UNCHANGED result
    /\ UNCHANGED <<store_vars, chat_vars, model_calls, tests, previous, elapsed, candidates, requests, tname, tres, witem, wres, api_key, image, fs_enabled, content, enh_error, enh>>

\* the except branch of enhance_analysis_with_database: return ai_result
EnhanceFails ==
    /\ enh_error' = TRUE
    /\ enh' = ai_result
    /\ pc' = "return"
    /\ UNCHANGED <<idx, enhanced_items, total_calories_enhanced, database_matches>>

\* enhanced_items.append(enhanced_item) and the running total
EnhanceAppend(built, total) ==
    IF total.st = "raise" THEN EnhanceFails
    ELSE /\ enhanced_items' = Append(enhanced_items, built.item)
         /\ total_calories_enhanced' = total.val
         /\ database_matches' = database_matches + (IF built.matched THEN 1 ELSE 0)
         /\ idx' = idx + 1
         /\ UNCHANGED <<pc, enh_error, enh>>

EnhanceStep(step) ==
    IF step.st = "raise" THEN EnhanceFails
    ELSE EnhanceAppend(step.val,
                       PyAdd(Ok(total_calories_enhanced), step.val.item.calories))

\* one iteration of the loop of enhance_analysis_with_database
EnhanceItem ==
    /\ pc = "enhance"
    /\ idx <= Len(ai_result.food_items)
    /\ \E answer1 \in SearchAnswers, answer2 \in SearchAnswers,
          answer3 \in DetailAnswers :
          /\ EnhanceStep(enhance_item(ai_result.food_items[idx], fs_enabled,
                                      answer1, answer2, answer3))
          /\ requests' = lookup_requests(ai_result.food_items[idx], fs_enabled,
                                         answer1, answer2, answer3)
          /\ candidates' = lookup_candidates(ai_result.food_items[idx], fs_enabled,
                                             answer1, answer2)
    /\ UNCHANGED <<store_vars, chat_vars, model_calls, tests, previous, elapsed, tname, tres, witem, wres, api_key,
                   image, fs_enabled, content, pres, ai_result, result>>

\* enhanced_result['confidence']; .get('confidence', 70)
original_confidence_of(res) ==
    IF res.confidence.t = "missing" THEN Num(T(70)) ELSE res.confidence

EnhanceBuild(confidence) ==
    IF ~IsNum(total_calories_enhanced) \/ confidence.st = "raise"
    THEN EnhanceFails
    ELSE /\ enh' = [ai_result EXCEPT
               !.food_items = enhanced_items,
               !.total_calories = Num(PyRound(total_calories_enhanced.v)),
               !.database_matches = Num(database_matches),
               !.total_items = Num(Len(enhanced_items)),
               !.confidence = confidence.val]
         /\ pc' = "return"
         /\ UNCHANGED <<idx, enhanced_items, total_calories_enhanced,
                        database_matches, enh_error>>

\* after the loop: the enhanced result
EnhanceFinish ==
    /\ pc = "enhance"
    /\ idx > Len(ai_result.food_items)
    /\ EnhanceBuild(boosted_confidence(original_confidence_of(ai_result),
                                       database_matches))
    /\ UNCHANGED <<store_vars, chat_vars, model_calls, tests, previous, elapsed, candidates, requests, tname, tres, witem, wres, api_key, image, fs_enabled, content, pres,
                   ai_result, result>>

\* return enhanced_result
Return ==
    /\ pc = "return"
    /\ ReturnWith(enh)
    /\ UNCHANGED <<store_vars, chat_vars, model_calls, tests, previous, elapsed, candidates, requests, tname, tres, witem, wres, api_key, image, fs_enabled, content, pres,
                   ai_result, idx, enhanced_items, total_calories_enhanced,
                   database_matches, enh_error, enh>>

Next ==
    \/ ReturnNoKey
    \/ ReturnEmptyImage
    \/ ModelCallRaises
    \/ ModelRepliesNothing
    \/ ModelReplies
    \/ Parse
    \/ EnhanceItem
    \/ EnhanceFinish
    \/ Return

Spec == Init /\ [][Next]_vars

(***************************************************************************)
(* Specification of a session: analyze_food_image is called again after it *)
(* has returned, on the same image or on another, within 24 hours of the   *)
(* call before or later.  The code reads no clock: elapsed is an input it  *)
(* does not look at.  FatSecret is disabled and the model has few replies. *)
(* Between the analyses the administrator may send /testai, whose handler  *)
(* calls the same client.                                                  *)
(***************************************************************************)
MaxAnalyses == 2
MaxTests == 2

SessionContents ==
    {Content(<<"D">>, Doc("list", <<CoreBorshch>>, Num(T(999)), Num(T(90))), <<>>),
     Content(<<"D">>, Doc("list", <<CoreUnknown>>, Missing, Num(T(50))), <<>>),
     Message(<<"steak">>)}

\* an analysis that has returned: its image, its result, and the calls of
\* the client counted when it returned, those of /testai among them
Analysis(img, res, calls, tested) ==
    [image |-> img, result |-> res, calls |-> calls, tests |-> tested]

InitSession ==
    /\ pc = "start"
    /\ witem = NoItem
    /\ wres = NoRes
    /\ api_key \in BOOLEAN
    /\ image \in {"bytes", "empty"}
    /\ fs_enabled = FALSE
    /\ IdleAnalyze

\* the next call of analyze_food_image: its locals are new
AnalyzeAgain ==
    /\ pc = "done"
    /\ Len(previous) + 1 < MaxAnalyses
    /\ previous' = Append(previous, Analysis(image, result, model_calls, tests))
    /\ image' \in {"bytes", "empty"}
    /\ elapsed' \in {"within_ttl", "after_ttl"}
    /\ pc' = "start"
    /\ content' = NoContent
    /\ pres' = NoParse
    /\ ai_result' = NoResult
    /\ idx' = 0
    /\ enhanced_items' = <<>>
    /\ total_calories_enhanced' = Num(0)
    /\ database_matches' = 0
    /\ enh_error' = FALSE
    /\ enh' = NoResult
    /\ result' = NoResult
    /\ requests' = <<>>
    /\ candidates' = <<>>
    /\ UNCHANGED <<store_vars, chat_vars, model_calls, tests, tname, tres, witem, wres,
                   api_key, fs_enabled>>

SessionModelReplies == ModelRepliesFrom(SessionContents)

\* CalorieBotHandlers.test_ai_command, sent by the administrator (or by
\* anyone when ADMIN_USER_ID is empty) before an analysis or after one:
\* analyzer.client.chat.completions.create is called with a short prompt,
\* whether the key is set or not, and what it returns or raises is only
\* shown.  For any other sender the command replies and calls nothing.
TestAi ==
    /\ pc \in {"start", "done"}
    /\ tests < MaxTests
    /\ model_calls' = model_calls + 1
    /\ tests' = tests + 1
    /\ UNCHANGED <<store_vars, chat_vars, pc, previous, elapsed, candidates,
                   requests, tname, tres, witem, wres, api_key, image,
                   fs_enabled, content, pres, ai_result, idx, enhanced_items,
                   total_calories_enhanced, database_matches, enh_error, enh,
                   result>>

NextSession ==
    \/ ReturnNoKey
    \/ ReturnEmptyImage
    \/ ModelCallRaises
    \/ ModelRepliesNothing
    \/ SessionModelReplies
    \/ Parse
    \/ EnhanceItem
    \/ EnhanceFinish
    \/ Return
    \/ AnalyzeAgain
    \/ TestAi

SpecSession == InitSession /\ [][NextSession]_vars

(***************************************************************************)
(* Specification of the food diary: calls of add_food_entry, of any user   *)
(* at any time that is not before the clock, and the command               *)
(* /rebuildstats.  Each commit is a step: add_food_entry commits the entry *)
(* in its session and then calls _update_daily_stats, which commits the    *)
(* statistics in a session of its own.  Between the two the tables hold    *)
(* the entry without its statistics, and they stay so when                 *)
(* _update_daily_stats raises.                                             *)
(***************************************************************************)
\* the variables of the analysis of a photo
analysis_vars ==
    <<witem, wres, api_key, image, fs_enabled, content, pres, ai_result, idx,
      enhanced_items, total_calories_enhanced, database_matches, enh_error, enh,
      result, tname, tres, requests, model_calls, tests, previous, elapsed,
      candidates>>

InitStats ==
    /\ pc = "diary"
    /\ tname = NoName
    /\ tres = NoTranslation
    /\ IdleCall
    /\ Polling

\* DatabaseManager.add_food_entry up to its commit: the entry is in the
\* table, the statistics of its user and its date are still to update
AddFoodEntry ==
    /\ pc = "diary"
    /\ Len(food_entries) < MaxEntries
    /\ \E user_id \in Users : \E meal \in Meals :
       \E now \in clock .. (MaxDay * TicksPerDay - 1) :
           /\ clock' = now
           /\ food_entries' = Append(food_entries, FoodEntry(user_id, meal, now))
           /\ pending' = Pending(user_id, {date_of(now)}, pending.raised)
    /\ pc' = "update_daily_stats"
    /\ UNCHANGED <<daily_stats, analysis_vars, chat_vars>>

\* CalorieBotHandlers.rebuild_stats_command up to its loop: the dates of
\* the entries of the user are to update, in the order the query gave
\* them.  For a user without entries the command only replies.
RebuildStats ==
    /\ pc = "diary"
    /\ \E user_id \in Users :
           /\ unique_dates(food_entries, user_id) # {}
           /\ pending' = Pending(user_id, unique_dates(food_entries, user_id),
                                 pending.raised)
    /\ pc' = "update_daily_stats"
    /\ UNCHANGED <<food_entries, daily_stats, clock, analysis_vars, chat_vars>>

\* DatabaseManager._update_daily_stats, called by add_food_entry or by the
\* loop of rebuild_stats_command: the statistics of one date are committed
UpdateDailyStats ==
    /\ pc = "update_daily_stats"
    /\ \E date \in pending.dates :
           /\ daily_stats' = update_daily_stats(daily_stats, food_entries,
                                                pending.user_id, date)
           /\ pending' = [pending EXCEPT !.dates = @ \ {date}]
           /\ pc' = IF pending.dates = {date} THEN "diary" ELSE pc
    /\ UNCHANGED <<food_entries, clock, analysis_vars, chat_vars>>

\* _update_daily_stats raises before its commit (the connection fails, or
\* the date is the string SQLite gives for func.date): add_food_entry lets
\* the exception pass, rebuild_stats_command leaves its loop; the tables
\* stay as they are
UpdateDailyStatsRaises ==
    /\ pc = "update_daily_stats"
    /\ pending' = [pending EXCEPT !.dates = {}, !.raised = TRUE]
    /\ pc' = "diary"
    /\ UNCHANGED <<food_entries, daily_stats, clock, analysis_vars, chat_vars>>

NextStats ==
    \/ AddFoodEntry
    \/ RebuildStats
    \/ UpdateDailyStats
    \/ UpdateDailyStatsRaises

SpecStats == InitStats /\ [][NextStats]_vars

(***************************************************************************)
(* Specification of the chat: the user presses buttons and sends texts,    *)
(* commands and photos.  Run by bot.py the application polls and handles   *)
(* one update at a time; run by webhook_server.py each request awaits      *)
(* process_update, so that the handler of an update runs while another is  *)
(* suspended at an await, and only /start, /help, /stats and /settings     *)
(* are registered.  A handler is one step up to the await after which it   *)
(* still writes: the handlers of the onboarding write waiting_for after    *)
(* the reply they await, photo_handler writes the entry, the statistics    *)
(* and user_data after the analysis it awaits.  An await can raise.  The   *)
(* database answers every call of the handlers, except that                *)
(* _update_daily_stats can raise.  The calls of the model that /testai and *)
(* the analysis of a photo make are counted in the specification of the    *)
(* session.  A session is MaxUpdates updates long.                         *)
(***************************************************************************)
MaxUpdates == 7
MaxSuspended == 1
MaxPhotos == 1

\* db_user.id: the row of the user of the chat is the first of the table
db_user_id == Min(Users)

InitChat ==
    /\ pc = "chat"
    /\ tname = NoName
    /\ tres = NoTranslation
    /\ IdleCall
    /\ webhook \in BOOLEAN
    /\ sqlite \in BOOLEAN

\* the application takes an update: none is being handled, or the requests
\* of the webhook are served concurrently
Ready ==
    /\ pc = "chat"
    /\ webhook \/ suspended = <<>>

\* the sequence without its i-th element
drop(seq, i) == SubSeq(seq, 1, i - 1) \o SubSeq(seq, i + 1, Len(seq))

\* the user and the user_data after a handler, or at the await where the
\* handler is suspended; button is the settings button the update pressed,
\* if it pressed one
Chat(handled, button) ==
    /\ updates < MaxUpdates
    /\ updates' = updates + 1
    /\ handled.outcome = "awaiting" => Len(suspended) < MaxSuspended
    /\ user_data' = handled.user_data
    /\ user' = handled.user
    /\ last' = button
    /\ suspended' = IF handled.outcome = "awaiting"
                    THEN Append(suspended, handled.handler)
                    ELSE suspended
    /\ UNCHANGED <<webhook, sqlite, analysis_vars>>

\* the user presses the inline button
ButtonPressed(data) ==
    /\ Ready
    /\ Chat(button_handler(user_data, user, data, sqlite),
            IF data \in SettingButtons THEN data ELSE Absent)
    /\ UNCHANGED <<pc, store_vars>>

PressButton == \E data \in Buttons : ButtonPressed(data)

\* the user sends the text
TextSent(text) ==
    /\ Ready
    /\ Chat(text_handler(user_data, user, text), Absent)
    /\ UNCHANGED <<pc, store_vars>>

SendText == \E text \in TextPool : TextSent(text)

\* the user sends a command; /rebuildstats goes on to its loop over the
\* dates of the entries of the user when there are any
SendCommand ==
    /\ Ready
    /\ \E command \in (IF webhook THEN WebhookCommands ELSE Commands) :
           /\ Chat(command_handler(user_data, user, command), Absent)
           /\ IF /\ command = "rebuildstats"
                 /\ unique_dates(food_entries, db_user_id) # {}
              THEN /\ pending' = Pending(db_user_id,
                                         unique_dates(food_entries, db_user_id),
                                         pending.raised)
                   /\ pc' = "rebuild_stats"
              ELSE UNCHANGED <<pc, pending>>
    /\ UNCHANGED <<food_entries, daily_stats, clock>>

\* the user sends a photo
SendPhoto ==
    /\ Ready
    /\ Chat(photo_handler(user_data, user), Absent)
    /\ UNCHANGED <<pc, store_vars>>

\* the reply of a suspended onboarding handler is sent: the handler goes
\* on and sets what the bot waits for next
ReplySent ==
    /\ pc = "chat"
    /\ \E i \in DOMAIN suspended :
           /\ suspended[i] \in Suspending
           /\ user_data' = [user_data EXCEPT
                                !.waiting_for = waiting_for_after(suspended[i])]
           /\ suspended' = drop(suspended, i)
    /\ UNCHANGED <<pc, user, last, updates, webhook, sqlite, analysis_vars, store_vars>>

\* the reply raises (telegram.error.NetworkError): no handler catches it and
\* user_data stays as it was at the await
ReplyRaises ==
    /\ pc = "chat"
    /\ \E i \in DOMAIN suspended :
           /\ suspended[i] \in Suspending
           /\ suspended' = drop(suspended, i)
    /\ UNCHANGED <<pc, user_data, user, last, updates, webhook, sqlite, analysis_vars,
                   store_vars>>

\* photo_handler ends with nothing stored: its first reply or the download
\* raises, or the analysis returns an error and no calories
PhotoFails ==
    /\ pc = "chat"
    /\ \E i \in DOMAIN suspended :
           /\ suspended[i] = "photo_handler"
           /\ suspended' = drop(suspended, i)
    /\ UNCHANGED <<pc, user_data, user, last, updates, webhook, sqlite, analysis_vars,
                   store_vars>>

\* the analysis returns no calories and no error: photo_handler stores no
\* entry and keeps the result in user_data
PhotoAnalysed ==
    /\ pc = "chat"
    /\ \E i \in DOMAIN suspended :
           /\ suspended[i] = "photo_handler"
           /\ suspended' = drop(suspended, i)
    /\ user_data' = photo_analysed(user_data)
    /\ UNCHANGED <<pc, user, last, updates, webhook, sqlite, analysis_vars, store_vars>>

\* the analysis returns calories: photo_handler calls add_food_entry, which
\* commits the entry of the user; its statistics are still to update.  The
\* chat is within one tick of the clock.
PhotoEntryAdded ==
    /\ pc = "chat"
    /\ Len(food_entries) < MaxPhotos
    /\ \E i \in DOMAIN suspended :
           /\ suspended[i] = "photo_handler"
           /\ suspended' = drop(suspended, i)
    /\ \E meal \in Meals :
           food_entries' = Append(food_entries,
                                  FoodEntry(db_user_id, meal, clock))
    /\ pending' = Pending(db_user_id, {date_of(clock)}, pending.raised)
    /\ pc' = "photo_stats"
    /\ UNCHANGED <<daily_stats, clock, user_data, user, last, updates, webhook,
                   sqlite, analysis_vars>>

\* _update_daily_stats commits the statistics of a date, for add_food_entry
\* called by photo_handler or for the loop of /rebuildstats.  photo_handler
\* then formats the result and keeps it in user_data, unless the formatting
\* or the query of the calories of the day raises.
ChatStatsUpdated ==
    /\ pc \in {"photo_stats", "rebuild_stats"}
    /\ \E date \in pending.dates :
           /\ daily_stats' = update_daily_stats(daily_stats, food_entries,
                                                pending.user_id, date)
           /\ pending' = [pending EXCEPT !.dates = @ \ {date}]
           /\ pc' = IF pending.dates = {date} THEN "chat" ELSE pc
    /\ \E kept \in BOOLEAN :
           user_data' = IF kept /\ pc = "photo_stats"
                        THEN photo_analysed(user_data) ELSE user_data
    /\ UNCHANGED <<food_entries, clock, user, last, suspended, updates, webhook, sqlite,
                   analysis_vars>>

\* _update_daily_stats raises before its commit: photo_handler and
\* /rebuildstats catch the exception and answer with an error
ChatStatsRaises ==
    /\ pc \in {"photo_stats", "rebuild_stats"}
    /\ pending' = [pending EXCEPT !.dates = {}, !.raised = TRUE]
    /\ pc' = "chat"
    /\ UNCHANGED <<food_entries, daily_stats, clock, chat_vars, analysis_vars>>

NextChat ==
    \/ SendText
    \/ PressButton
    \/ SendCommand
    \/ SendPhoto
    \/ ReplySent
    \/ ReplyRaises
    \/ PhotoFails
    \/ PhotoAnalysed
    \/ PhotoEntryAdded
    \/ ChatStatsUpdated
    \/ ChatStatsRaises

SpecChat == InitChat /\ [][NextChat]_vars

(***************************************************************************)
(* Properties of enhance_analysis_with_database ("reconcile"), read in the *)
(* state where it has returned (pc = "return"): enh is the result it       *)
(* returns, ai_result the parsed result it was given.                      *)
(***************************************************************************)
Reconciled == pc = "return"

\* the result is the enhanced result, not the parsed result of the except branch
Completed == pc = "return" /\ ~enh_error

IsDatabaseItem(item) ==
    item.source \in {DB_LABEL("russian_database_corrected"), DB_LABEL("fatsecret")}

\* C1: in every result reconcile returns, also after an internal error,
\* total_calories equals the sum of the calories of the returned items
C1_TotalIsSum ==
    Reconciled =>
        PySum(FieldSeq(enh.food_items, "calories")) = Ok(enh.total_calories)

\* C2: every returned item that comes from a composition match has
\* calories = round(calories_per_100g * weight_g / 100), weight_g being the
\* weight recorded on the item
C2_CaloriesRounded ==
    Completed =>
        \A i \in DOMAIN enh.food_items :
            IsDatabaseItem(enh.food_items[i]) =>
                enh.food_items[i].calories =
                    Num(T(RoundHalfEven(enh.food_items[i].calories_per_100g.v
                                          * enh.food_items[i].estimated_weight.v,
                                        10000)))

\* min(95, confidence + min(20, matches * 10)) on tenths
SpecConfidence(confidence, matches) ==
    MinOf(950, confidence + MinOf(200, 100 * matches))

\* C3 (as stated): after reconcile has processed all items the confidence is
\* min(95, parsed.confidence + min(20, matches * 10)), for every parsed
\* confidence in 0..100 and every number of matches, zero included
C3_ConfidenceFormula ==
    (/\ Completed
     /\ IsNum(ai_result.confidence)
     /\ ai_result.confidence.v >= 0
     /\ ai_result.confidence.v <= T(100))
        => enh.confidence =
               Num(SpecConfidence(ai_result.confidence.v, database_matches))

\* C3 (amended): with at least one match the enhanced result has confidence
\* min(95, parsed.confidence + min(20, matches * 10)) for every parsed
\* confidence that is a number (95 for a parsed confidence of NaN); with no
\* match, and in the parsed result returned after an internal error, the
\* confidence is the parsed confidence unchanged
C3_ConfidenceFormulaWhenMatched ==
    Reconciled =>
        IF ~enh_error /\ database_matches >= 1
        THEN /\ ai_result.confidence.t \in {"num", "nan"}
             /\ IsNum(ai_result.confidence) =>
                    enh.confidence =
                        Num(SpecConfidence(ai_result.confidence.v, database_matches))
             /\ ai_result.confidence = NaN => enh.confidence = Num(T(95))
        ELSE enh.confidence = ai_result.confidence

\* three matches on a parsed confidence of 50: the boost stops at +20
C3_Witness ==
    /\ Completed
    /\ database_matches = 3
    /\ ai_result.confidence = Num(T(50))
    /\ enh.confidence = Num(T(70))

\* C4: the confidence reconcile returns is never below the confidence of the
\* parsed result
C4_NeverLowers ==
    (Reconciled /\ IsNum(ai_result.confidence)) =>
        (IsNum(enh.confidence) /\ enh.confidence.v >= ai_result.confidence.v)

\* C5: in every result of reconcile with at least one database match,
\* 0 <= confidence <= 95, whatever confidence the model sent
C5_ConfidenceBounds ==
    (/\ Reconciled
     /\ IsNum(enh.database_matches)
     /\ enh.database_matches.v >= 1)
        => (/\ IsNum(enh.confidence)
            /\ enh.confidence.v >= 0
            /\ enh.confidence.v <= T(95))

\* C6: _parse_ai_response never raises, it returns a result with an item
\* sequence for every reply
C6_ParseNeverRaises ==
    pres # NoParse =>
        (pres.st = "ok" /\ DOMAIN pres.val.food_items = 1..Len(pres.val.food_items))

\* C7: analyze_food_image always returns a result with an item list, a
\* numeric total_calories and a confidence
C7_ValidResult ==
    pc = "done" =>
        /\ DOMAIN result.food_items = 1..Len(result.food_items)
        /\ result.total_calories.t \in {"num", "nan"}
        /\ result.confidence.t # "missing"

\* C8: an error raised while one item is processed touches that item only:
\* the items processed before it are returned reconciled and the matches
\* among them are counted
C8_ErrorContained ==
    (Reconciled /\ enh_error /\ idx <= Len(ai_result.food_items)) =>
        /\ Len(enh.food_items) = Len(ai_result.food_items)
        /\ \A j \in DOMAIN enhanced_items : enh.food_items[j] = enhanced_items[j]
        /\ database_matches > 0 => enh.database_matches = Num(database_matches)

(***************************************************************************)
(* Properties of _extract_weight_from_item ("resolve_weight"), read after  *)
(* the call of SpecWeight.                                                 *)
(***************************************************************************)
\* the weight recorded for a curated match of the key: at least 50 g
RecordedFloor(food_key, weight) ==
    /\ apply_weight_correction(food_key, weight).st = "ok"
    /\ apply_weight_correction(food_key, weight).val.v >= T(50)

\* C9: every weight resolve_weight returns is at least 50 g, and so is the
\* weight recorded after the typical-portion correction of a curated match
C9_WeightFloor ==
    (wres # NoRes /\ wres.st = "ok") =>
        /\ IsNum(wres.val)
        /\ wres.val.v >= T(50)
        /\ \A food_key \in RussianKeys : RecordedFloor(food_key, wres.val)

\* C10: resolve_weight never fails and returns a positive number, whatever
\* the portion description and the calories of the item are
C10_NeverFails ==
    wres # NoRes => (wres.st = "ok" /\ IsNum(wres.val) /\ wres.val.v > 0)

(***************************************************************************)
(* Properties of translate_food_name ("normalize"), read after the call of *)
(* SpecTranslate.                                                          *)
(***************************************************************************)
Translation(i) == FOOD_TRANSLATIONS[i]

\* the name in lower case, without the spaces around it
TrimmedLower(chars) == str_strip(str_lower(chars))

IsKey(chars) == \E i \in DOMAIN FOOD_TRANSLATIONS : Translation(i).key = chars

\* the keys that occur in the text
KeysIn(text) ==
    {i \in DOMAIN FOOD_TRANSLATIONS : str_contains(text, Translation(i).key)}

\* key i is one of the longest keys that occur in the text
IsLongestIn(i, text) ==
    /\ i \in KeysIn(text)
    /\ \A j \in KeysIn(text) : Len(Translation(j).key) <= Len(Translation(i).key)

\* C11: when the trimmed, lowercased name is no key itself but keys occur in
\* it, translate_food_name returns the value of the longest key that occurs
C11_LongestMatch ==
    (/\ tres # NoTranslation
     /\ ~IsKey(TrimmedLower(tname))
     /\ KeysIn(TrimmedLower(tname)) # {})
        => \E i \in DOMAIN FOOD_TRANSLATIONS :
               /\ IsLongestIn(i, TrimmedLower(tname))
               /\ tres = Translated(Translation(i).value)

\* 'Big Ham and Cheese Sandwich': the keys 'cheese', 'ham' and 'ham and
\* cheese sandwich' occur, the value of the longest one is returned
C11_Witness ==
    /\ tname = <<"B", "i", "g", " ", "h", "a", "m", " ", "a", "n", "d", " ", "c", "h",
                 "e", "e", "s", "e", " ", "s", "a", "n", "d", "w", "i", "c", "h">>
    /\ Cardinality(KeysIn(TrimmedLower(tname))) = 3
    /\ tres = Translated("<buterbrod s vetchinoy i syrom>")

\* the other names of the model that differ from the name only in letter case
CaseTwins(chars) ==
    {other \in NameInputs : other # chars /\ str_lower(other) = str_lower(chars)}

\* C12 (as stated): two non-empty names that differ only in letter case get
\* the same result, whether a key matches or not
C12_CaseInsensitive ==
    (tres # NoTranslation /\ tname # <<>>) =>
        \A other \in CaseTwins(tname) : translate_food_name(other) = tres

\* a key is the name or occurs in it
KeyMatches(chars) ==
    IsKey(TrimmedLower(chars)) \/ KeysIn(TrimmedLower(chars)) # {}

\* C12 (amended): two non-empty names that differ only in letter case get
\* the same translation when a key matches; when no key matches each name
\* is returned as it was given, in its own letter case
C12_CaseInsensitiveWhenMatched ==
    (tres # NoTranslation /\ tname # <<>>) =>
        IF KeyMatches(tname)
        THEN /\ tres.kind = "translated"
             /\ \A other \in CaseTwins(tname) : translate_food_name(other) = tres
        ELSE /\ tres = Original(tname)
             /\ \A other \in CaseTwins(tname) :
                    translate_food_name(other) = Original(other)

\* 'TEA HAM' is translated as 'tea ham' and 'Tea ham' are
C12_Witness ==
    /\ tname = <<"T", "E", "A", " ", "H", "A", "M">>
    /\ Cardinality(CaseTwins(tname)) >= 2
    /\ tres = Translated("<chay>")

(***************************************************************************)
(* Properties of the loop of enhance_analysis_with_database: item j of     *)
(* ai_result.food_items is processed once j <= Len(enhanced_items), and    *)
(* enhanced_items[j] is the item the loop built for it.                    *)
(***************************************************************************)
\* the parsed result has one item, the curated key with the weight "300g",
\* and a numeric confidence
IsBorshch300g ==
    /\ IsNum(ai_result.confidence)
    /\ Len(ai_result.food_items) = 1
    /\ ai_result.food_items[1].name = "<borshch>"
    /\ ai_result.food_items[1].estimated_weight = WStr("s_lat", T(300))

\* C13: one item named as the curated key (93 kcal/100 g) with
\* estimated_weight "300g" is reconciled to 279 kcal with the label of the
\* curated database, and database_matches is 1
C13_ExactCuratedMatch ==
    (Reconciled /\ IsBorshch300g) =>
        /\ ~enh_error
        /\ enh.food_items[1].calories = Num(T(279))
        /\ enh.food_items[1].source = DB_LABEL("russian_database_corrected")
        /\ enh.database_matches = Num(1)

\* the lookup of the item can find nothing: no external source, and the
\* curated table has no match for the name
NoUsableMatch(item) ==
    /\ ~fs_enabled
    /\ extract_weight_from_item(item).st = "ok"
    /\ get_nutrition_info(item.name, extract_weight_from_item(item).val, FALSE,
                          "error", "error", "error") = Ok(NoInfo)

\* the model's item with the label of the model estimate, nothing else changed
PassedThrough(item) == [item EXCEPT !.source = AI_LABEL]

\* C14: an item without a usable match keeps the model's name, calories,
\* proteins, carbs and fats, carries the label of the model estimate and no
\* match_score, and is not counted in database_matches
C14_PassThrough ==
    /\ \A j \in DOMAIN enhanced_items :
           /\ NoUsableMatch(ai_result.food_items[j]) =>
                  ~IsDatabaseItem(enhanced_items[j])
           /\ ~IsDatabaseItem(enhanced_items[j]) =>
                  /\ enhanced_items[j] = PassedThrough(ai_result.food_items[j])
                  /\ enhanced_items[j].match_score.t = "absent"
    /\ database_matches =
           Cardinality({j \in DOMAIN enhanced_items : IsDatabaseItem(enhanced_items[j])})
    /\ Completed => enh.food_items = enhanced_items

\* a curated match followed by an unknown name: one match counted, the
\* second item passed through with its 100.5 kcal
C14_Witness ==
    /\ Completed
    /\ ~fs_enabled
    /\ Len(enh.food_items) = 2
    /\ IsDatabaseItem(enh.food_items[1])
    /\ NoUsableMatch(ai_result.food_items[2])
    /\ enh.food_items[2] = PassedThrough(ai_result.food_items[2])
    /\ enh.food_items[2].name = "zzz"
    /\ enh.food_items[2].calories = Num(1005)
    /\ enh.database_matches = Num(1)

(***************************************************************************)
(* Unavailability of FatSecret.                                            *)
(***************************************************************************)
\* the loop has looked up the item before idx and appended what it built
LastLookedUp == idx > 1 /\ Len(enhanced_items) = idx - 1

\* the loop stopped on the item at idx
StoppedInLoop == pc = "return" /\ enh_error /\ idx <= Len(ai_result.food_items)

SearchesFailed ==
    \A r \in DOMAIN requests :
        requests[r].op = "search" => requests[r].answer = "error"

DetailsFailed ==
    \E r \in DOMAIN requests :
        requests[r].op = "details" /\ requests[r].answer = "error"

\* what the loop builds of the item when FatSecret is disabled
WithoutFatSecret(item) == enhance_item(item, FALSE, "error", "error", "error")

\* the iteration of the loop raises also when FatSecret is disabled
FailsWithoutFatSecret(item) ==
    \/ WithoutFatSecret(item).st = "raise"
    \/ /\ WithoutFatSecret(item).st = "ok"
       /\ PyAdd(Ok(total_calories_enhanced),
                WithoutFatSecret(item).val.item.calories).st = "raise"

\* C15: unavailability of FatSecret never propagates: without credentials no
\* request is sent; when every search request of an item failed, the item is
\* built as with the source disabled, from the curated database or from the
\* estimate of the model; when the request for the details failed, the item
\* is not built from FatSecret; and an iteration that stops the loop after
\* failed requests stops it also with the source disabled
C15_UnavailabilityContained ==
    /\ ~fs_enabled => requests = <<>>
    /\ (LastLookedUp /\ SearchesFailed) =>
           /\ WithoutFatSecret(ai_result.food_items[idx - 1]).st = "ok"
           /\ enhanced_items[idx - 1] =
                  WithoutFatSecret(ai_result.food_items[idx - 1]).val.item
           /\ enhanced_items[idx - 1].source
                  \in {DB_LABEL("russian_database_corrected"), AI_LABEL}
    /\ (LastLookedUp /\ DetailsFailed) =>
           enhanced_items[idx - 1].source = AI_LABEL
    /\ (StoppedInLoop /\ (SearchesFailed \/ DetailsFailed)) =>
           FailsWithoutFatSecret(ai_result.food_items[idx])

\* both searches of an item of no curated match failed and the result is
\* returned with the estimate of the model
C15_Witness ==
    /\ fs_enabled
    /\ Completed
    /\ LastLookedUp
    /\ Len(requests) = 2
    /\ SearchesFailed
    /\ enhanced_items[idx - 1].source = AI_LABEL
    /\ enh.food_items = enhanced_items

(***************************************************************************)
(* The confidence of a parsed response.                                    *)
(***************************************************************************)
\* C16: the result _parse_ai_response returns has a confidence in [0, 100],
\* whatever confidence the response carries (none, negative, above 100)
C16_ParsedConfidenceRange ==
    (pres.st = "ok") =>
        /\ IsNum(pres.val.confidence)
        /\ pres.val.confidence.v >= 0
        /\ pres.val.confidence.v <= T(100)

(***************************************************************************)
(* Responses that are valid JSON with a defective item.                    *)
(***************************************************************************)
\* a field of the item is missing or has the wrong type
Defective(item) ==
    \/ item.estimated_weight.k \in {"missing", "null", "number"}
    \/ \E field \in {"calories", "proteins", "carbs", "fats"} : ~IsNum(item[field])

\* the response is a JSON object whose food_items are objects, one of them
\* defective
DefectiveResponse ==
    /\ pres # NoParse
    /\ extract_json(content.toks) = "dict"
    /\ content.doc.food_items.k = "list"
    /\ \A i \in DOMAIN content.doc.food_items.items :
           content.doc.food_items.items[i] # NonDictEntry
    /\ \E i \in DOMAIN content.doc.food_items.items :
           Defective(content.doc.food_items.items[i])

\* C17: a response that is valid JSON with an item of a missing or wrong-typed
\* field is recovered locally: the result analyze_food_image returns has the
\* items of the response, the missing fields backfilled, and is not the
\* generic fallback result
C17_RecoveredLocally ==
    (pc = "done" /\ DefectiveResponse) =>
        /\ ~result.error
        /\ Len(result.food_items) = Len(content.doc.food_items.items)
        /\ \A i \in DOMAIN result.food_items :
               /\ result.food_items[i].name
                      = backfill_item(content.doc.food_items.items[i]).name
               /\ result.food_items[i].certainty # "<missing>"

(***************************************************************************)
(* Repeated analyses of an image, read when a call has returned.           *)
(***************************************************************************)
\* the analysis that has returned is of the image of the analysis before,
\* within 24 hours of it
RepeatedWithinTTL ==
    /\ pc = "done"
    /\ previous # <<>>
    /\ previous[Len(previous)].image = image
    /\ elapsed = "within_ttl"

\* the analyses made before the current one that reached the call of the
\* model
ReachedModel ==
    {k \in DOMAIN previous : api_key /\ previous[k].image = "bytes"}

\* the calls of the model that analyze_food_image has made: those of the
\* client less those of /testai
analysis_calls == model_calls - tests

\* the calls of the model analyze_food_image had made when the k-th analysis
\* returned
analysis_calls_at(k) == previous[k].calls - previous[k].tests

\* C19 (as stated): analysing the same image bytes a second time within the
\* 24 hours returns the result computed before, and the analysis does not
\* call the model again
C19_CachedWithinTTL ==
    RepeatedWithinTTL =>
        /\ result = previous[Len(previous)].result
        /\ analysis_calls = analysis_calls_at(Len(previous))

\* C19 (amended): analyze_food_image keeps no cache: every analysis made with
\* the key set and an image that is not empty calls the model once, also when
\* the same image was analysed within the 24 hours before, and an analysis
\* stopped by the check of the key or of the image calls it not at all; the
\* only other calls of the model are those of /testai
C19_EveryAnalysisCallsModel ==
    (pc = "done") =>
        /\ analysis_calls = Cardinality(ReachedModel)
                            + (IF api_key /\ image = "bytes" THEN 1 ELSE 0)
        /\ \A k \in DOMAIN previous :
               analysis_calls_at(k) = Cardinality({j \in ReachedModel : j <= k})

\* the same image analysed twice within 24 hours, /testai sent in between:
\* three calls of the model, two of them by the analyses, and two different
\* results
C19_Witness ==
    /\ RepeatedWithinTTL
    /\ image = "bytes"
    /\ model_calls = 3
    /\ tests = 1
    /\ previous[1].calls = 1
    /\ previous[1].tests = 0
    /\ result # previous[1].result
    /\ ~result.error

(***************************************************************************)
(* Items whose lookup has candidates.                                      *)
(***************************************************************************)
\* the candidates of the curated database for the item: an exact match or
\* the fuzzy matches of a score of at least 70.  They rank before the results
\* of FatSecret, which have no score.
CuratedCandidates(item) == russian_search_food(item.name, FALSE, "error")

HasCuratedCandidate(item) ==
    /\ CuratedCandidates(item).st = "ok"
    /\ CuratedCandidates(item).val # <<>>

\* a search of the last item in FatSecret was answered with foods
HasApiCandidate ==
    /\ LastLookedUp
    /\ ApiFoods(ai_result.food_items[idx - 1].name) # <<>>
    /\ \E r \in DOMAIN requests :
           requests[r].op = "search" /\ requests[r].answer = "foods"

\* C20: every item whose lookup has a candidate (exact curated, fuzzy curated
\* of score >= 70, or of FatSecret) is built from the best-ranked candidate,
\* with its calories_per_100g and the label of a database, and counts as a
\* match (the rounding of the scaled calories is the subject of C2)
C20_BuiltFromBestCandidate ==
    Completed =>
        /\ \A j \in DOMAIN enhanced_items :
               HasCuratedCandidate(ai_result.food_items[j]) =>
                   /\ IsDatabaseItem(enhanced_items[j])
                   /\ enhanced_items[j].calories_per_100g
                          = CuratedCandidates(ai_result.food_items[j]).val[1].calories_per_100g
        /\ HasApiCandidate => IsDatabaseItem(enhanced_items[idx - 1])
        /\ database_matches >=
               Cardinality({j \in DOMAIN enhanced_items :
                               HasCuratedCandidate(ai_result.food_items[j])})

(***************************************************************************)
(* The name the lookup is queried with.                                    *)
(***************************************************************************)
\* the characters of item.get('name', ''), for the names of the items of the
\* model; a Cyrillic word is one symbol, no key of FOOD_TRANSLATIONS occurs
\* in it
name_chars(name) ==
    CASE name = "pancakes" -> <<"p", "a", "n", "c", "a", "k", "e", "s">>
      [] name = "Apple" -> <<"A", "p", "p", "l", "e">>
      [] name = "Borscht " -> <<"B", "o", "r", "s", "c", "h", "t", " ">>
      [] name = "zzz" -> <<"z", "z", "z">>
      [] name = "<Eda> (steak)" ->
             <<"<Eda>", " ", "(", "s", "t", "e", "a", "k", ")">>
      [] name = "<Eda> (steak, meat)" ->
             <<"<Eda>", " ", "(", "s", "t", "e", "a", "k", ",", " ", "m",
               "e", "a", "t", ")">>
      [] name = "<Eda> (steak, food)" ->
             <<"<Eda>", " ", "(", "s", "t", "e", "a", "k", ",", " ", "f",
               "o", "o", "d", ")">>
      [] name = "<Eda> (fish, rice)" ->
             <<"<Eda>", " ", "(", "f", "i", "s", "h", ",", " ", "r", "i",
               "c", "e", ")">>
      [] name = "<Eda> (food)" ->
             <<"<Eda>", " ", "(", "f", "o", "o", "d", ")">>
      [] name = "<Eda> (meal)" ->
             <<"<Eda>", " ", "(", "m", "e", "a", "l", ")">>
      [] name = "<Eda> (food, meal)" ->
             <<"<Eda>", " ", "(", "f", "o", "o", "d", ",", " ", "m", "e",
               "a", "l", ")">>
      [] OTHER -> <<name>>

\* NameNormalizer.normalize of the name: the translation translate_food_name
\* finds, or the name itself
normalize(name) ==
    IF translate_food_name(name_chars(name)).kind = "translated"
    THEN translate_food_name(name_chars(name)).text
    ELSE name

\* the normalized name of the item is a key of the curated database
NormalizesToCurated(item) ==
    /\ item.name # NonStrName
    /\ LowerStrip(normalize(item.name)) \in RussianKeys

\* C21: reconcile looks the item up under the name translate_food_name gives,
\* so every item whose name the translation table maps to a curated key is
\* found in the curated database
C21_NormalizedLookup ==
    Completed =>
        \A j \in DOMAIN enhanced_items :
            NormalizesToCurated(ai_result.food_items[j]) =>
                enhanced_items[j].source = DB_LABEL("russian_database_corrected")

(***************************************************************************)
(* When FatSecret is asked.                                                *)
(***************************************************************************)
\* C22: during the lookup of an item FatSecret is asked only when it is
\* configured and the curated database has no candidate for the item; with a
\* curated candidate no request is sent
C22_ExternalOnlyWithoutCurated ==
    LastLookedUp =>
        /\ requests # <<>> => fs_enabled
        /\ HasCuratedCandidate(ai_result.food_items[idx - 1]) => requests = <<>>

(***************************************************************************)
(* The order of the candidates of a lookup.                                *)
(***************************************************************************)
\* a candidate of the curated database: the exact match or a fuzzy match
IsCurated(candidate) == candidate.source \in {"russian_database", "russian"}

\* C23: in the list the lookup returns every candidate of the curated
\* database comes before every candidate of FatSecret, and the curated
\* candidates are in the order of their scores, the greatest first
C23_CuratedFirst ==
    \A i \in DOMAIN candidates : \A j \in DOMAIN candidates :
        /\ (IsCurated(candidates[i]) /\ ~IsCurated(candidates[j])) => i < j
        /\ (IsCurated(candidates[i]) /\ IsCurated(candidates[j]) /\ i < j) =>
               candidates[i].match_score.v >= candidates[j].match_score.v

\* two fuzzy candidates of different scores, then the foods of FatSecret
C23_Witness ==
    /\ Len(candidates) = 4
    /\ candidates[1].source = "russian"
    /\ candidates[2].source = "russian"
    /\ candidates[1].match_score.v > candidates[2].match_score.v
    /\ candidates[3].source = "fatsecret"
    /\ candidates[4].source = "fatsecret"

(***************************************************************************)
(* The weight _extract_weight_from_item ("resolve_weight") returns, read   *)
(* after the call of SpecWeight.                                           *)
(***************************************************************************)
Resolved == wres # NoRes

\* max(a, b) of the specification
\* max(50, round(calories / 2.5)) on tenths
DensityWeight(calories) == Num(T(MaxOf(50, RoundHalfEven(calories.v, 25))))

\* C24: a weight written as the prompt asks, a number and the unit "g"
\* ("320g"), resolves to that number, at least 50, whatever the number of
\* calories
C24_GramWeightParsed ==
    (Resolved /\ witem.estimated_weight.k = "s_lat" /\ IsNum(witem.calories)) =>
        wres = Ok(Num(MaxOf(T(50), witem.estimated_weight.v)))

\* C25: with no estimated_weight, or one that holds no weight, the weight is
\* max(50, round(calories / 2.5)): 200 for calories 500
C25_WeightFromCalories ==
    (/\ Resolved
     /\ witem.estimated_weight.k \in {"missing", "s_text"}
     /\ IsNum(witem.calories)) =>
        wres = Ok(DensityWeight(witem.calories))

(***************************************************************************)
(* The total of a parsed response.                                         *)
(***************************************************************************)
\* _parse_ai_response has returned the validated JSON object of the reply
ParsedObject == pres.st = "ok" /\ extract_json(content.toks) = "dict"

\* C26: when the total_calories of the JSON object is zero or absent, the
\* parsed result has the sum of the calories of its items as total_calories;
\* a total that is not zero is left as given
C26_TotalRecomputed ==
    ParsedObject =>
        IF content.doc.total_calories \in {Missing, Num(0)}
        THEN PySum(FieldSeq(pres.val.food_items, "calories"))
                 = Ok(pres.val.total_calories)
        ELSE pres.val.total_calories = content.doc.total_calories

\* a reply with prose around the JSON object, total_calories 0 and items of
\* 200 and 100.5 kcal
C26_Witness ==
    /\ ParsedObject
    /\ content.toks = <<"P", "D", "P">>
    /\ content.doc.total_calories = Num(0)
    /\ pres.val.total_calories = Num(3005)

(***************************************************************************)
(* The totals of the macronutrients.                                       *)
(***************************************************************************)
\* C27: in every result reconcile returns total_proteins, total_carbs and
\* total_fats are the sums of the proteins, carbs and fats of the returned
\* items, also when a database replaced the values of an item
C27_MacroTotalsAreSums ==
    Reconciled =>
        /\ PySum(FieldSeq(enh.food_items, "proteins")) = Ok(enh.total_proteins)
        /\ PySum(FieldSeq(enh.food_items, "carbs")) = Ok(enh.total_carbs)
        /\ PySum(FieldSeq(enh.food_items, "fats")) = Ok(enh.total_fats)

(***************************************************************************)
(* The weight recorded on a curated match.                                 *)
(***************************************************************************)
IsCuratedItem(item) == item.source = DB_LABEL("russian_database_corrected")

\* the weight resolve_weight gave for item j of the parsed result, in tenths
ResolvedWeight(j) == extract_weight_from_item(ai_result.food_items[j]).val.v

\* the weight recorded on item j of the enhanced items, in tenths
RecordedWeight(j) == enhanced_items[j].estimated_weight.v

\* the key of the curated food item j was matched with
CuratedKey(j) == LowerStrip(enhanced_items[j].name)

\* the resolved weight truncated to an integer, in tenths
Truncated(v) == 10 * (v \div 10)

\* the weight the specification records for a food of typical weight t
CorrectedWeight(v, t) == IF 2 * Abs(v - t) > t THEN t ELSE Truncated(v)

\* C28: the weight recorded on a curated match of a food with a typical
\* weight t deviates from t by at most t/2: it is t when the resolved weight
\* deviates from t by more than half of t, the truncated resolved weight
\* otherwise; for a food with no typical weight it is the truncated resolved
\* weight
C28_WeightNearTypical ==
    \A j \in DOMAIN enhanced_items :
        IsCuratedItem(enhanced_items[j]) =>
            IF CuratedKey(j) \in DOMAIN typical_weights
            THEN /\ 2 * Abs(RecordedWeight(j) - typical_weights[CuratedKey(j)])
                        <= typical_weights[CuratedKey(j)]
                 /\ RecordedWeight(j) =
                        CorrectedWeight(ResolvedWeight(j),
                                        typical_weights[CuratedKey(j)])
            ELSE RecordedWeight(j) = Truncated(ResolvedWeight(j))

\* a borshch resolved to less than half of its typical 300 g is recorded
\* with 300 g
C28_Witness ==
    /\ Completed
    /\ \E j \in DOMAIN enhanced_items :
           /\ IsCuratedItem(enhanced_items[j])
           /\ CuratedKey(j) = "<borshch>"
           /\ 2 * Abs(ResolvedWeight(j) - T(300)) > T(300)
           /\ RecordedWeight(j) = T(300)
           /\ enh.food_items[j].estimated_weight = WStr("s_ru", T(300))

(***************************************************************************)
(* The daily statistics and the food entries.                              *)
(***************************************************************************)
\* the entries of the user whose date is the day
EntriesOn(u, d) ==
    SelectSeq(food_entries,
        LAMBDA entry : entry.user_id = u /\ date_of(entry.created_at) = d)

\* the calls made so far have returned: none is running and none has raised
CallsReturned == pc = "diary" /\ ~pending.raised

\* C29: after any sequence of calls that returned, for every user and day
\* with a food entry there is exactly one row of daily statistics; its
\* totals are the sums over the entries of the user on that day and its
\* meals_count is their number
C29_StatsMatchEntries ==
    \A u \in Users : \A d \in Days :
        (CallsReturned /\ EntriesOn(u, d) # <<>>) =>
            /\ Cardinality(stats_rows(daily_stats, u, d)) = 1
            /\ \A i \in stats_rows(daily_stats, u, d) :
                   daily_stats[i] = stats_row(u, d, EntriesOn(u, d))

(***************************************************************************)
(* The settings of the user.                                               *)
(***************************************************************************)
\* the text is a valid value of the setting of the button
ValidValue(button, text) ==
    CASE button = "set_calorie_goal" ->
           text.kind = "int" /\ T(500) <= text.v /\ text.v <= T(5000)
      [] button = "set_weight" ->
           text.kind \in {"int", "dot", "comma"} /\ T(20) <= text.v /\ text.v <= T(300)
      [] button = "set_height" ->
           text.kind = "int" /\ T(100) <= text.v /\ text.v <= T(250)
      [] button = "set_personal_info" ->
           /\ text.kind = "age_gender"
           /\ T(10) <= text.v /\ text.v <= T(120)
           /\ text.word \in {"<muzhskoy>", "<zhenskiy>"}
      [] OTHER -> FALSE

\* the setting of the button is the value of the text in the row u
SettingStored(u, button, text) ==
    CASE button = "set_calorie_goal" -> u.daily_calorie_goal = text.v
      [] button = "set_weight" -> u.weight = text.v
      [] button = "set_height" -> u.height = text.v
      [] button = "set_personal_info" ->
           u.age = text.v /\ u.gender = gender_of(text.word)
      [] OTHER -> FALSE

\* the bot takes the text, a valid value of the settings button pressed in
\* the update before
ValueSentAfterButton(text) ==
    /\ TextSent(text)
    /\ last \in SettingButtons
    /\ ValidValue(last, text)

\* C30: after the press of a settings button and a valid value sent as text,
\* text_handler passed the text to process_settings_input, the setting of the
\* user is that value and waiting_for is cleared
C30_SettingUpdated ==
    [][\A text \in TextPool :
           ValueSentAfterButton(text) =>
               /\ text_handler(user_data, user, text).handler
                      = "process_settings_input"
               /\ SettingStored(user', last, text)
               /\ user_data'.waiting_for = Absent]_vars

====
